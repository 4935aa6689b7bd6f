----------------------- MODULE StrategyOrders_proofs ------------------------
(***************************************************************************)
(* Proofs about orders with a strategy: how a rule-based one is evaluated  *)
(* and sent (Rules), how a built-in one is (Strategies), and how requests  *)
(* schedule them (Schedules), for any plans, quotes, settings and forms.   *)
(***************************************************************************)
EXTENDS MCScans, Schedules, FiniteSetTheorems, TLAPS

-----------------------------------------------------------------------------
(* Numbers.                                                                *)

\* Natural numbers have a least element wherever they have one.
LEMMA LeastExists ==
  ASSUME NEW S, S \subseteq Nat, S # {}
  PROVE  \E m \in S : \A n \in S : m <= n
<1> DEFINE Under(n) == {k \in Nat : k < n}
           T == {Under(n) : n \in S}
<1>1. ASSUME NEW n \in S PROVE Under(n) \in FiniteSubsetsOf(Nat)
  <2>1. n \in Nat /\ Under(n) \in SUBSET Nat /\ \A s \in Under(n) : s <= n
    OBVIOUS
  <2>2. IsFiniteSet(Under(n))
    <3> HIDE DEF Under
    <3> QED BY <2>1, FS_BoundedSetOfNaturals
  <2>3. QED
    BY <2>1, <2>2 DEF FiniteSubsetsOf
<1>2. T \subseteq FiniteSubsetsOf(Nat) /\ T # {}
  BY <1>1
<1>3. IsWellFoundedOn(StrictSubsetOrdering(Nat), FiniteSubsetsOf(Nat))
  BY FS_StrictSubsetOrderingWellFounded
<1>4. \E x \in T : \A y \in T : ~(<<y, x>> \in StrictSubsetOrdering(Nat))
  <2> HIDE DEF T
  <2> QED BY <1>2, <1>3, WFMin
<1>5. PICK m \in S : \A n \in S : ~(<<Under(n), Under(m)>> \in StrictSubsetOrdering(Nat))
  BY <1>4
<1>6. ASSUME NEW n \in S, n < m PROVE FALSE
  <2>1. m \in Nat /\ n \in Nat
    OBVIOUS
  <2>2. Under(n) \subseteq Under(m) /\ n \in Under(m) /\ n \notin Under(n)
    BY <2>1, <1>6
  <2>3. <<Under(n), Under(m)>> \in StrictSubsetOrdering(Nat)
    BY <2>1, <2>2 DEF StrictSubsetOrdering
  <2>4. QED
    BY <2>3, <1>5
<1>7. QED
  BY <1>6

\* Division by a positive number.
LEMMA Division ==
  ASSUME NEW a \in Nat, NEW b \in Nat, b > 0
  PROVE  /\ a \div b \in Nat /\ a % b \in 0..(b - 1)
         /\ a = b * (a \div b) + (a % b)
OBVIOUS

-----------------------------------------------------------------------------
(* What the steps of an evaluation leave of a rule's history.              *)

\* The marks of a history that its observations do not touch.
Marks(h) == {"was", "streak", "confirmedAt", "executed", "count"} \subseteq DOMAIN h
SameMarks(h, g) ==
  /\ Marks(g) /\ g.executed = h.executed /\ g.count = h.count
  /\ g.was = h.was /\ g.streak = h.streak /\ g.confirmedAt = h.confirmedAt

LEMMA ObserveKeeps ==
  ASSUME NEW h, Marks(h), NEW price, NEW at
  PROVE  SameMarks(h, Observe(h, price, at))
BY DEF Observe, Marks, SameMarks

LEMMA StartedKeeps ==
  ASSUME NEW i, Marks(hist[i]), NEW q, NEW mem
  PROVE  SameMarks(hist[i], Started(i, q, mem))
<1>1. SameMarks(hist[i], Seeded(hist[i], q, mem))
  BY ObserveKeeps DEF Seeded, SameMarks, Marks
<1>2. \A h : Marks(h) => SameMarks(h, Protected(h, q))
  BY DEF Protected, Marks, SameMarks
<1>3. QED
  BY <1>1, <1>2 DEF Started, SameMarks

LEMMA AdvanceAllKeeps ==
  ASSUME NEW h, Marks(h), NEW conditions, NEW q
  PROVE  SameMarks(h, AdvanceAll(h, conditions, q))
BY DEF AdvanceAll, Marks, SameMarks

\* What the evaluation x of a rule makes of its history h.
NewStreak(h, when, q) == IF ~when THEN 0 ELSE IF q.at # 0 /\ h.confirmedAt = q.at THEN h.streak ELSE h.streak + 1
Confirming(r, h, g, e, q) ==
  LET n == NewStreak(h, e.when, q) IN
  /\ g.streak = Lesser(n, r.scans)
  /\ g.confirmedAt = (IF e.when /\ q.at # 0 THEN q.at ELSE h.confirmedAt)
  /\ e.confirmed => n >= r.scans
Carried(r, h, g, e, q) ==
  /\ Marks(g)
  /\ ~e.evaluated => g.was = h.was /\ g.streak = h.streak /\ g.confirmedAt = h.confirmedAt
  /\ e.evaluated => g.was = e.confirmed /\ (r.confirm = "true_for_scans" => Confirming(r, h, g, e, q))
Judged(r, h, x, q) ==
  /\ Carried(r, h, x.h, x.e, q) /\ x.h.executed = h.executed /\ x.h.count = h.count
  /\ x.e.fires => x.e.evaluated /\ x.e.confirmed /\ ~(r.trigger = "on_cross" /\ h.was)

LEMMA NotNowIs ==
  ASSUME NEW r, NEW q, NEW h, NEW g, Marks(h), SameMarks(h, g)
  PROVE  Judged(r, h, NotNow(g), q)
BY DEF Judged, Carried, NotNow, Unevaluated, SameMarks

LEMMA TriggeredIs ==
  ASSUME NEW r, NEW q, NEW h, NEW g, Marks(h), SameMarks(h, g), NEW when,
         r.confirm \in {"immediate", "true_for_scans", "matches_in_last"}
  PROVE  Judged(r, h, Triggered(r, g.was, when, Confirmed(r, g, when, q)), q)
<1> DEFINE c == Confirmed(r, g, when, q)
           x == Triggered(r, g.was, when, c)
<1>1. Marks(c.h) /\ c.h.executed = h.executed /\ c.h.count = h.count
  <2>1. CASE r.confirm = "immediate"
    BY <2>1 DEF Confirmed, SameMarks
  <2>2. CASE r.confirm = "true_for_scans"
    BY <2>2 DEF Confirmed, SameMarks, Marks
  <2>3. CASE r.confirm = "matches_in_last"
    BY <2>3 DEF Confirmed, SameMarks, Marks
  <2>4. QED
    BY <2>1, <2>2, <2>3
<1>2. ASSUME r.confirm = "true_for_scans"
      PROVE  LET n == NewStreak(h, when, q) IN
             /\ c.h.streak = Lesser(n, r.scans)
             /\ c.h.confirmedAt = (IF when /\ q.at # 0 THEN q.at ELSE h.confirmedAt)
             /\ c.yes <=> n >= r.scans
  BY <1>2 DEF Confirmed, SameMarks, Marks, NewStreak
<1>3. /\ Marks(x.h) /\ x.h.executed = h.executed /\ x.h.count = h.count
      /\ x.h.was = c.yes /\ x.h.streak = c.h.streak /\ x.h.confirmedAt = c.h.confirmedAt
  <2> HIDE DEF c
  <2> QED BY <1>1 DEF Triggered, Was, Marks
<1>4. /\ x.e.evaluated /\ x.e.confirmed = c.yes /\ x.e.when = when
      /\ x.e.fires <=> c.yes /\ ~(r.trigger = "on_cross" /\ h.was)
  <2> HIDE DEF c
  <2> QED BY DEF Triggered, SameMarks
<1>5. r.confirm = "true_for_scans" => Confirming(r, h, x.h, x.e, q)
  <2> HIDE DEF c, x
  <2> QED BY <1>2, <1>3, <1>4 DEF Confirming
<1>6. QED
  <2> HIDE DEF c, x
  <2>1. Judged(r, h, x, q)
    BY <1>3, <1>4, <1>5 DEF Judged, Carried
  <2>2. QED
    BY <2>1 DEF x, c

LEMMA EvaluatedIs ==
  ASSUME NEW r, NEW q, NEW h, Marks(h),
         r.confirm \in {"immediate", "true_for_scans", "matches_in_last"}
  PROVE  Judged(r, h, Evaluated(r, h, q), q)
<1>1. \A g : SameMarks(h, g) => Judged(r, h, NotNow(g), q)
  BY NotNowIs
<1>2. \A g, conditions : SameMarks(h, g) => SameMarks(h, AdvanceAll(g, conditions, q))
  BY AdvanceAllKeeps DEF SameMarks
<1>3. \A g, when : SameMarks(h, g) => Judged(r, h, Signalled(r, g, q, when), q)
  <2> SUFFICES ASSUME NEW g, NEW when, SameMarks(h, g) PROVE Judged(r, h, Signalled(r, g, q, when), q)
    OBVIOUS
  <2> DEFINE a == AdvanceAll(g, r.signal, q)
  <2>1. SameMarks(h, a) /\ a.was = g.was
    BY <1>2 DEF SameMarks
  <2>2. Judged(r, h, Triggered(r, a.was, when, Confirmed(r, a, when, q)), q)
    <3> HIDE DEF a
    <3> QED BY <2>1, TriggeredIs
  <2>3. QED
    BY <2>1, <2>2 DEF Signalled
<1>4. \A g : SameMarks(h, g) => Judged(r, h, WhenScored(r, g, q), q)
  BY <1>1, <1>2, <1>3 DEF WhenScored
<1>5. \A g : SameMarks(h, g) => Judged(r, h, WhenRequired(r, g, q), q)
  BY <1>1, <1>2, <1>4 DEF WhenRequired
<1>6. \A g : SameMarks(h, g) => Judged(r, h, WhenEligible(r, g, q), q)
  BY <1>1, <1>2, <1>5 DEF WhenEligible
<1>7. SameMarks(h, h)
  BY DEF SameMarks
<1>8. QED
  BY <1>1, <1>2, <1>6, <1>7 DEF Evaluated

-----------------------------------------------------------------------------
(* Sizes and prices.                                                       *)

QuoteOK(q) == {q.ltp, q.at, q.bid, q.bidQty, q.ask, q.askQty} \subseteq Nat
Confirms == {"immediate", "true_for_scans", "matches_in_last"}
Sources == {"ltp", "top_buy", "top_sell"}

LEMMA OrderQuantityType ==
  ASSUME NEW mode, NEW value \in Int, NEW ltp \in Nat, NEW held \in Nat, NEW form \in Nat
  PROVE  OrderQuantity(mode, value, ltp, held, form) \in Int
<1>1. value > 0 /\ ltp > 0 => value \div ltp \in Int
  OBVIOUS
<1>2. \A w \in Int : (held * w) \div 100 \in Int
  OBVIOUS
<1>3. (IF value > 0 THEN value ELSE 100) \in Int
  OBVIOUS
<1>4. \A n \in Int : Greater(1, n) \in Int /\ IfGiven(n, form) \in Int /\ IfGiven(n, 10) \in Int /\ Lesser(held, n) \in Int
  BY DEF Greater, IfGiven, Lesser
<1>5. CASE mode = "quantity"
  BY <1>4, <1>5 DEF OrderQuantity, DefaultQuantity
<1>6. CASE mode = "amount"
  BY <1>1, <1>6 DEF OrderQuantity, DepthModes
<1>7. CASE mode = "percent_of_holding"
  BY <1>2, <1>3, <1>4, <1>7 DEF OrderQuantity, DepthModes
<1>8. CASE mode \in {"all_available", "sell_up_to"}
  BY <1>4, <1>8 DEF OrderQuantity, DepthModes
<1>9. CASE mode \notin {"quantity", "amount", "percent_of_holding", "all_available", "sell_up_to"}
  BY <1>9 DEF OrderQuantity
<1>10. QED
  BY <1>5, <1>6, <1>7, <1>8, <1>9

LEMMA DepthQuantityType ==
  ASSUME NEW mode, NEW value \in Int, NEW q, QuoteOK(q), NEW side, NEW held \in Nat, NEW form \in Nat
  PROVE  DepthQuantity(mode, value, q, side, held, form) \in Int
BY DEF DepthQuantity, QuoteOK, IfGiven, DefaultQuantity, Greater, Lesser

LEMMA SizedType ==
  ASSUME NEW r, r.value \in Int, NEW q, QuoteOK(q), left \in Nat
  PROVE  Sized(r, q) \in Int
<1>1. q.ltp \in Nat
  BY DEF QuoteOK
<1>2. OrderQuantity(r.mode, r.value, q.ltp, left, left) \in Int
  BY <1>1, OrderQuantityType
<1>3. DepthQuantity(r.mode, r.value, q, plan.side, left, left) \in Int
  BY DepthQuantityType
<1>4. QED
  BY <1>2, <1>3 DEF Sized, IfGiven

LEMMA LiveQuantityType ==
  ASSUME NEW mode, NEW value \in Int, NEW held \in Nat, NEW lot \in Nat \ {0}, NEW odd, NEW form \in Nat
  PROVE  LiveQuantity(mode, value, held, lot, odd, form) \in Int
<1> DEFINE n == OrderQuantity(mode, value, 0, held, form)
           want == Lesser(n, held)
           whole == RoundedToLot(want, lot)
<1>1. n \in Int
  BY OrderQuantityType
<1>2. want \in Int
  BY <1>1 DEF Lesser
<1>3. whole \in Int
  <2> HIDE DEF want
  <2> QED BY <1>2 DEF RoundedToLot
<1>4. NormalizedSell(want, held, lot).qty \in Int
  <2> HIDE DEF want
  <2> QED BY <1>2, <1>3 DEF NormalizedSell, Greater
<1>5. Lesser(NormalizedSell(want, held, lot).qty, held) \in Int
  <2> HIDE DEF want
  <2> QED BY <1>4 DEF Lesser
<1>6. QED
  BY <1>2, <1>5 DEF LiveQuantity

\* A price without a last price can only be the top buyer's.
LEMMA BuyLimitType ==
  ASSUME NEW q, QuoteOK(q), NEW slip \in Nat
  PROVE  BuyLimit(q, slip) \in Nat /\ (q.ltp = 0 => BuyLimit(q, slip) = 0)
<1>1. q.ltp \in Nat /\ q.ask \in Nat
  BY DEF QuoteOK
<1>2. q.ltp * (1000 + slip) \in Nat /\ (q.ltp = 0 => q.ltp * (1000 + slip) = 0)
  BY <1>1
<1>3. 1000 * q.ltp \in Nat /\ 1000 * q.ask \in Nat /\ (q.ltp = 0 => 1000 * q.ltp = 0)
  BY <1>1
<1>4. QED
  BY <1>1, <1>2, <1>3 DEF BuyLimit, Lesser, Greater

LEMMA RulePriceType ==
  ASSUME NEW q, QuoteOK(q), NEW side, NEW from \in Sources, NEW slip \in Nat
  PROVE  LET p == IfGiven(RulePrice(q, side, from, slip), 1000 * q.ltp) IN
         p \in Nat /\ (side = "buy" /\ from # "top_buy" /\ q.ltp = 0 => p = 0)
<1>1. BuyLimit(q, slip) \in Nat /\ (q.ltp = 0 => BuyLimit(q, slip) = 0)
  BY BuyLimitType
<1>2. q.ltp \in Nat /\ q.bid \in Nat /\ q.ask \in Nat
  BY DEF QuoteOK
<1>3. 1000 * q.ltp \in Nat /\ (q.ltp = 0 => 1000 * q.ltp = 0)
  BY <1>2
<1>4. TopBuyer(q) \in Nat /\ 1000 * IfGiven(q.bid, q.ltp) \in Nat /\ 1000 * IfGiven(q.ask, q.ltp) \in Nat
  BY <1>2 DEF TopBuyer, IfGiven, Lesser
<1>5. CASE from = "ltp"
  BY <1>3, <1>5 DEF RulePrice, IfGiven
<1>6. CASE from = "top_buy"
  BY <1>3, <1>4, <1>6 DEF RulePrice, IfGiven
<1>7. CASE from = "top_sell"
  BY <1>1, <1>3, <1>4, <1>7 DEF RulePrice, IfGiven
<1>8. QED
  BY <1>5, <1>6, <1>7 DEF Sources

-----------------------------------------------------------------------------
(* What a rule decides.                                                    *)

\* An order of a rule fired, within the limits of the rule; a purchase is marked.
MayOrder(r, h) == ~(r.frequency = "once" /\ h.executed) /\ ~(r.maxTimes # 0 /\ h.count >= r.maxTimes)
MarkedBy(r, h, d) ==
  \/ d.h.executed /\ d.h.count = h.count + 1
  \/ d.h.executed = h.executed /\ d.h.count = h.count
     /\ (plan.side = "buy" /\ r.from # "top_buy" => ~(d.price > 0))
Decided(r, h, d, e, q) ==
  /\ Carried(r, h, d.h, e, q) /\ d.price \in Nat /\ d.qty \in Int /\ d.value \in Int
  /\ d.act \in {"TRACK", "NO_TRADE", "EXECUTE", "EXIT"}
  /\ d.act # "EXECUTE" => d.h.executed = h.executed /\ d.h.count = h.count
  /\ d.act = "EXECUTE" => /\ e.evaluated /\ e.confirmed /\ ~(r.trigger = "on_cross" /\ h.was)
                          /\ MayOrder(r, h) /\ MarkedBy(r, h, d)
  /\ d.act = "EXIT" => plan.side # "buy"

RuleOK(r) == /\ r.value \in Int /\ r.scans \in Nat /\ r.maxTimes \in Nat
             /\ r.confirm \in Confirms /\ r.from \in Sources
PlanOK ==
  /\ plan.side \in {"buy", "sell"} /\ plan.qty \in Nat /\ plan.lot \in Nat \ {0} /\ plan.slip \in Nat
  /\ Len(plan.rules) \in Nat \ {0} /\ DOMAIN plan.rules = 1..Len(plan.rules)
  /\ \A i \in DOMAIN plan.rules : RuleOK(plan.rules[i])
  /\ Len(plan.exits) \in Nat /\ DOMAIN plan.exits = 1..Len(plan.exits)
  /\ \A i \in DOMAIN plan.exits : plan.exits[i].value \in Int

LEMMA MarkedIs ==
  ASSUME NEW h, Marks(h), NEW q
  PROVE  LET g == Marked(h, q) IN
         /\ Marks(g) /\ g.was = h.was /\ g.streak = h.streak /\ g.confirmedAt = h.confirmedAt
         /\ plan.side = "buy" /\ q.ltp # 0 => g.executed /\ g.count = h.count + 1
         /\ ~(plan.side = "buy" /\ q.ltp # 0) => g.executed = h.executed /\ g.count = h.count
BY DEF Marked, Marks

LEMMA WaitsIs ==
  ASSUME NEW r, NEW h, NEW g, NEW e, NEW q, Carried(r, h, g, e, q), g.executed = h.executed, g.count = h.count
  PROVE  Decided(r, h, Waits(g), e, q)
BY DEF Decided, Waits

LEMMA WantsIs ==
  ASSUME NEW r, NEW h, NEW x, NEW q, QuoteOK(q), Judged(r, h, x, q), x.e.fires, MayOrder(r, h),
         NEW price \in Nat, plan.side = "buy" /\ r.from # "top_buy" /\ q.ltp = 0 => price = 0,
         NEW qty \in Int, NEW mode, NEW value \in Int
  PROVE  Decided(r, h, Wants(Marked(x.h, q), price, qty, mode, value), x.e, q)
<1> DEFINE g == Marked(x.h, q)
           d == Wants(g, price, qty, mode, value)
<1>1. Marks(x.h)
  BY DEF Judged, Carried
<1>2. /\ Marks(g) /\ g.was = x.h.was /\ g.streak = x.h.streak /\ g.confirmedAt = x.h.confirmedAt
      /\ plan.side = "buy" /\ q.ltp # 0 => g.executed /\ g.count = h.count + 1
      /\ ~(plan.side = "buy" /\ q.ltp # 0) => g.executed = h.executed /\ g.count = h.count
  <2>1. x.h.executed = h.executed /\ x.h.count = h.count
    BY DEF Judged
  <2>2. \A f : Marks(f) =>
          LET m == Marked(f, q) IN
          /\ Marks(m) /\ m.was = f.was /\ m.streak = f.streak /\ m.confirmedAt = f.confirmedAt
          /\ plan.side = "buy" /\ q.ltp # 0 => m.executed /\ m.count = f.count + 1
          /\ ~(plan.side = "buy" /\ q.ltp # 0) => m.executed = f.executed /\ m.count = f.count
    BY MarkedIs
  <2>3. QED
    BY <1>1, <2>1, <2>2
<1>3. Carried(r, h, g, x.e, q)
  <2> HIDE DEF g
  <2> QED BY <1>2 DEF Judged, Carried, Confirming
<1>4. d.act = "EXECUTE" /\ d.h = g /\ d.price = price /\ d.qty = qty /\ d.value = value
  <2> HIDE DEF g
  <2> QED BY DEF Wants
<1>5. MarkedBy(r, h, d)
  <2> HIDE DEF g, d
  <2> QED BY <1>2, <1>4 DEF MarkedBy
<1>6. QED
  <2> HIDE DEF g, d
  <2>1. Decided(r, h, d, x.e, q)
    BY <1>3, <1>4, <1>5 DEF Decided, Judged
  <2>2. QED
    BY <2>1 DEF d, g

LEMMA ActIs ==
  ASSUME NEW r, RuleOK(r), NEW h, NEW x, NEW q, QuoteOK(q), Judged(r, h, x, q), NEW offers,
         PlanOK, left \in Nat
  PROVE  Decided(r, h, Act(r, x, q, offers), x.e, q)
<1>1. Decided(r, h, Waits(x.h), x.e, q)
  BY WaitsIs DEF Judged
<1>2. q.ltp \in Nat /\ 1000 * q.ltp \in Nat /\ (q.ltp = 0 => 1000 * q.ltp = 0)
  BY DEF QuoteOK
<1>3. ASSUME x.e.fires, ~Limited(r, x.h) PROVE MayOrder(r, h)
  BY <1>3 DEF Limited, MayOrder, Judged
<1>4. ASSUME x.e.fires, ~Limited(r, x.h) PROVE Decided(r, h, Delegated(r, x.h, q, offers), x.e, q)
  <2> DEFINE p == 1000 * q.ltp
  <2>1. p \in Nat /\ (plan.side = "buy" /\ r.from # "top_buy" /\ q.ltp = 0 => p = 0) /\ left \in Int /\ r.value \in Int
    BY <1>2 DEF RuleOK
  <2>2. Decided(r, h, Wants(Marked(x.h, q), p, left, r.mode, r.value), x.e, q)
    <3> HIDE DEF p
    <3> QED BY <1>3, <1>4, <2>1, WantsIs
  <2>3. QED
    BY <1>1, <2>2 DEF Delegated
<1>5. ASSUME x.e.fires, ~Limited(r, x.h) PROVE Decided(r, h, Fire(r, x.h, q, Sized(r, q)), x.e, q)
  <2> DEFINE p == IfGiven(RulePrice(q, plan.side, r.from, plan.slip), 1000 * q.ltp)
  <2>1. p \in Nat /\ (plan.side = "buy" /\ r.from # "top_buy" /\ q.ltp = 0 => p = 0)
    BY RulePriceType DEF RuleOK, PlanOK
  <2>2. Sized(r, q) \in Int
    BY SizedType DEF RuleOK
  <2>3. Decided(r, h, Wants(Marked(x.h, q), p, Sized(r, q), r.mode, r.value), x.e, q)
    <3> HIDE DEF p
    <3> QED BY <1>3, <1>5, <2>1, <2>2, WantsIs DEF RuleOK
  <2>4. QED
    BY <1>1, <2>3 DEF Fire
<1>6. QED
  BY <1>1, <1>4, <1>5 DEF Act

LEMMA ExitIs ==
  ASSUME NEW r, NEW h, NEW g, NEW q, QuoteOK(q), SameMarks(h, g), plan.side # "buy", NEW x, x.value \in Int, left \in Nat
  PROVE  Decided(r, h, Exit(g, q, x), Unevaluated, q)
<1> DEFINE n == OrderQuantity(x.mode, x.value, q.ltp, left, left)
           d == Exit(g, q, x)
<1>1. q.ltp \in Nat /\ 1000 * q.ltp \in Nat
  BY DEF QuoteOK
<1>2. n \in Int
  BY <1>1, OrderQuantityType
<1>3. d.act = "EXIT" /\ d.h = g /\ d.price = 1000 * q.ltp /\ d.qty = n /\ d.value = x.value
  <2> HIDE DEF n
  <2> QED BY DEF Exit, Wants, n
<1>4. QED
  <2> HIDE DEF n, d
  <2>1. Decided(r, h, d, Unevaluated, q)
    BY <1>1, <1>2, <1>3 DEF Decided, Carried, Unevaluated, SameMarks
  <2>2. QED
    BY <2>1 DEF d

LEMMA DecideIs ==
  ASSUME PlanOK, left \in Nat, NEW i \in DOMAIN plan.rules, Marks(hist[i]),
         NEW q, QuoteOK(q), NEW mem, NEW offers
  PROVE  LET x == Decide(plan.rules[i], Started(i, q, mem), q, offers)
         IN Decided(plan.rules[i], hist[i], x.d, x.e, q)
<1> DEFINE r == plan.rules[i]
           h == hist[i]
           s == Started(i, q, mem)
           g == Observe(s, q.ltp, q.at)
<1>1. RuleOK(r)
  BY DEF PlanOK
<1>2. SameMarks(h, s) /\ SameMarks(h, g)
  <2>1. SameMarks(h, s)
    BY StartedKeeps
  <2>2. Marks(s)
    BY <2>1 DEF SameMarks
  <2>3. SameMarks(s, g)
    <3> HIDE DEF s
    <3> QED BY <2>2, ObserveKeeps
  <2>4. QED
    <3> HIDE DEF s, g, h
    <3> QED BY <2>1, <2>3 DEF SameMarks
<1>3. \A f : SameMarks(h, f) => Decided(r, h, Waits(f), Unevaluated, q)
  <2> SUFFICES ASSUME NEW f, SameMarks(h, f) PROVE Decided(r, h, Waits(f), Unevaluated, q)
    OBVIOUS
  <2>1. Carried(r, h, f, Unevaluated, q) /\ f.executed = h.executed /\ f.count = h.count
    BY DEF Carried, SameMarks, Unevaluated
  <2>2. QED
    <3> HIDE DEF r, h
    <3> QED BY <2>1, WaitsIs
<1>4. ASSUME NEW f, SameMarks(h, f) PROVE Decided(r, h, [Waits(f) EXCEPT !.act = "NO_TRADE"], Unevaluated, q)
  BY <1>4 DEF Decided, Carried, SameMarks, Unevaluated, Waits
<1>5. ASSUME plan.side = "sell", Exits(g, q) # {}
      PROVE  Decided(r, h, Exit(g, q, plan.exits[Min(Exits(g, q))]), Unevaluated, q)
  <2>1. Exits(g, q) \subseteq DOMAIN plan.exits /\ DOMAIN plan.exits \subseteq Nat
    BY DEF Exits, PlanOK
  <2>2. Min(Exits(g, q)) \in Exits(g, q)
    <3> DEFINE S == Exits(g, q)
    <3>1. S \subseteq Nat /\ S # {}
      BY <1>5, <2>1
    <3>2. \E m \in S : \A n \in S : m <= n
      <4> HIDE DEF S
      <4> QED BY <3>1, LeastExists
    <3>3. QED
      BY <3>2 DEF Min
  <2>3. plan.exits[Min(Exits(g, q))].value \in Int
    BY <2>1, <2>2 DEF PlanOK
  <2>4. QED
    <3> HIDE DEF r, h, g
    <3> QED BY <1>2, <1>5, <2>3, ExitIs
<1>6. Decided(r, h, Act(r, Evaluated(r, g, q), q, offers), Evaluated(r, g, q).e, q)
  <2> DEFINE x == Evaluated(r, g, q)
  <2>1. Marks(g) /\ Marks(h)
    BY <1>2 DEF SameMarks
  <2>2. Judged(r, g, x, q)
    <3> HIDE DEF r, g
    <3> QED BY <1>1, <2>1, EvaluatedIs DEF RuleOK, Confirms
  <2>3. Judged(r, h, x, q)
    <3> HIDE DEF r, h, g, x
    <3> QED BY <1>2, <2>2 DEF Judged, Carried, Confirming, NewStreak, SameMarks
  <2>4. Decided(r, h, Act(r, x, q, offers), x.e, q)
    <3> HIDE DEF r, h, x
    <3> QED BY <1>1, <2>3, ActIs
  <2>5. QED
    BY <2>4
<1>7. Decided(r, h, DecideFresh(r, g, q, offers).d, DecideFresh(r, g, q, offers).e, q)
  <2> HIDE DEF r, h, g
  <2> QED BY <1>2, <1>4, <1>5, <1>6 DEF DecideFresh, DecideRule, Decision
<1>8. QED
  <2>1. Decided(r, h, Waits(s), Unevaluated, q)
    BY <1>2, <1>3
  <2>2. Decided(r, h, Decide(r, s, q, offers).d, Decide(r, s, q, offers).e, q)
    <3> HIDE DEF r, h, s
    <3> QED BY <1>7, <2>1 DEF Decide, Decision
  <2>3. QED
    BY <2>2

-----------------------------------------------------------------------------
(* What is sent.                                                           *)

OrderRecord == [rule : Nat, qty : Nat, price : Nat, held : Nat, time : {"before", "expired", "late"}]
WholeLot(o) ==
  IF plan.side = "buy" THEN o.qty % plan.lot = 0 ELSE o.qty <= o.held /\ ~OddLot(o.held - o.qty, plan.lot)

\* What the sale of n shares of a holding leaves, when n is what normalize_sell_qty makes of it.
LEMMA NormalizedLeaves ==
  ASSUME NEW n \in Nat, n > 0, NEW held \in Nat, n <= held, NEW lot \in Nat \ {0},
         NormalizedSell(n, held, lot).all \/ NormalizedSell(n, held, lot).qty = n
  PROVE  ~OddLot(held - n, lot)
<1> DEFINE whole == (n \div lot) * lot
<1>1. whole \in Int /\ whole <= n
  <2>1. n \div lot \in Nat /\ n % lot \in 0..(lot - 1) /\ n = lot * (n \div lot) + (n % lot)
    BY Division
  <2>2. QED
    BY <2>1
<1>2. CASE n >= held
  BY <1>2 DEF OddLot
<1>3. CASE n < held /\ OddLot(held - whole, lot)
  <2>1. NormalizedSell(n, held, lot) = [qty |-> Greater(whole - lot, 0), all |-> FALSE]
    BY <1>3 DEF NormalizedSell, RoundedToLot
  <2>2. Greater(whole - lot, 0) # n
    <3> HIDE DEF whole
    <3> QED BY <1>1 DEF Greater
  <2>3. QED
    BY <2>1, <2>2
<1>4. CASE n < held /\ ~OddLot(held - whole, lot)
  <2>1. NormalizedSell(n, held, lot) = [qty |-> Greater(whole, 0), all |-> FALSE]
    BY <1>4 DEF NormalizedSell, RoundedToLot
  <2>2. Greater(whole, 0) = n
    BY <2>1
  <2>3. whole = n
    <3> HIDE DEF whole
    <3> QED BY <1>1, <2>2 DEF Greater
  <2>4. QED
    BY <1>4, <2>3
<1>5. QED
  BY <1>2, <1>3, <1>4

LEMMA LotRuleKeeps ==
  ASSUME PlanOK, NEW n \in Nat, n > 0, NEW held \in Nat,
         ~LotRuleBlocks(plan.side, n, held, plan.lot, plan.odd), ~plan.odd, NEW o, o.qty = n, o.held = held
  PROVE  WholeLot(o)
<1>1. CASE plan.side = "buy"
  BY <1>1 DEF LotRuleBlocks, WholeLot
<1>2. CASE plan.side # "buy"
  <2>1. n <= held /\ (NormalizedSell(n, held, plan.lot).all \/ NormalizedSell(n, held, plan.lot).qty = n)
    BY <1>2 DEF LotRuleBlocks
  <2>2. plan.lot \in Nat \ {0}
    BY DEF PlanOK
  <2>3. ~OddLot(held - n, plan.lot)
    BY <2>1, <2>2, NormalizedLeaves
  <2>4. QED
    BY <1>2, <2>1, <2>3 DEF WholeLot
<1>3. QED
  BY <1>1, <1>2

\* An order o of a rule is sent for a decision d.
SentFor(d, rule) ==
  \E o \in OrderRecord : orders' = Append(orders, o) /\ o.rule = rule /\ d.price > 0 /\ (plan.odd \/ WholeLot(o))

LEMMA SendIs ==
  ASSUME PlanOK, left \in Nat, time \in {"before", "expired", "late"}, NEW d, d.price \in Nat,
         NEW rule \in Nat, NEW held \in Nat, NEW n \in Int, Send(d, rule, held, n)
  PROVE  left' \in Nat /\ (orders' = orders \/ SentFor(d, rule))
<1>1. n \in Nat /\ n > 0 /\ d.price > 0
  BY DEF Send
<1>2. CASE \E st : Kept(st)
  BY <1>2 DEF Kept
<1>3. CASE ~\E st : Kept(st)
  <2> DEFINE o == [rule |-> rule, qty |-> n, price |-> Tenth(d.price), held |-> held, time |-> time]
  <2>1. /\ ~LotRuleBlocks(plan.side, n, held, plan.lot, plan.odd) /\ orders' = Append(orders, o)
        /\ left' = Greater(0, left - n)
    BY <1>3 DEF Send
  <2>2. Tenth(d.price) \in Nat
    BY DEF Tenth
  <2>3. o \in OrderRecord /\ o.rule = rule /\ o.qty = n /\ o.held = held
    BY <1>1, <2>2 DEF OrderRecord
  <2>4. plan.odd \/ WholeLot(o)
    <3> HIDE DEF o
    <3> QED BY <1>1, <2>1, <2>3, LotRuleKeeps
  <2>5. left' \in Nat
    BY <2>1 DEF Greater
  <2>6. QED
    <3> HIDE DEF o
    <3> QED BY <1>1, <2>1, <2>3, <2>4, <2>5 DEF SentFor
<1>4. QED
  BY <1>2, <1>3

LEMMA SubmitIs ==
  ASSUME PlanOK, left \in Nat, time \in {"before", "expired", "late"}, NEW d, d.price \in Nat, d.qty \in Int,
         d.value \in Int, NEW rule \in Nat, NEW held \in Nat, Submit(d, rule, held)
  PROVE  left' \in Nat /\ (orders' = orders \/ SentFor(d, rule))
<1>1. LiveQuantity(d.mode, d.value, held, plan.lot, plan.odd, plan.qty) \in Int
  BY LiveQuantityType DEF PlanOK
<1>2. IfGiven(d.qty, left) \in Int
  BY DEF IfGiven
<1>3. CASE \E st : Kept(st)
  BY <1>3 DEF Kept
<1>4. QED
  BY <1>1, <1>2, <1>3, SendIs DEF Submit

-----------------------------------------------------------------------------
(* The inductive invariant of the rules.                                   *)

RuleAt(i) == plan.rules[i]

\* A rule that has not failed since its last order remembers that it held.
CrossingKnown(i) == ~seen[i].failed => hist[i].was

\* What a rule has seen since its condition last failed.
Counted(s) == Cardinality(s.trades) + s.untimed
\* The streak of a rule counts trades it has seen, the last of them the one that confirmed last,
\* and scans at which it was not told of a trade.
StreakSeen(i) ==
  RuleAt(i).confirm = "true_for_scans" =>
    /\ hist[i].confirmedAt \in 0..market.at /\ hist[i].streak \in Nat /\ seen[i].untimed \in Nat
    /\ IsFiniteSet(seen[i].trades) /\ seen[i].trades \subseteq 1..hist[i].confirmedAt
    /\ hist[i].streak <= Counted(seen[i])
\* A quote tells the time of the latest trade, or of none.
TellsTrade(q) == market'.at \in Nat /\ market.at <= market'.at /\ q.at \in {0, market'.at}

\* The marks of a buying rule count its purchases.
Counts(i) == plan.side = "buy" /\ RuleAt(i).from # "top_buy"
PurchasesMarked(i) ==
  Counts(i) => /\ Cardinality(Orders(i)) <= hist[i].count
               /\ Orders(i) # {} => hist[i].executed
PurchasesInLimit(i) ==
  Counts(i) => /\ RuleAt(i).frequency = "once" => Cardinality(Orders(i)) <= 1
               /\ RuleAt(i).maxTimes # 0 => Cardinality(Orders(i)) <= RuleAt(i).maxTimes
RuleInv(i) ==
  /\ Marks(hist[i]) /\ hist[i].count \in Nat
  /\ CrossingKnown(i) /\ StreakSeen(i) /\ PurchasesMarked(i) /\ PurchasesInLimit(i)

RowOK ==
  /\ plan \in Plans /\ DOMAIN hist = DOMAIN plan.rules /\ DOMAIN seen = DOMAIN plan.rules
  /\ left \in Nat /\ market \in [ltp : Nat, at : Nat] /\ time \in {"before", "expired", "late"}
  /\ orders \in Seq(OrderRecord)
RulesIInv == RowOK /\ WholeLots /\ \A i \in DOMAIN plan.rules : RuleInv(i)

LEMMA PlansOK ==
  ASSUME plan \in Plans
  PROVE  PlanOK
BY RuleConstants DEF PlanOK, RuleOK, Confirms, Sources

LEMMA FiniteOrders ==
  ASSUME orders \in Seq(OrderRecord), NEW i
  PROVE  IsFiniteSet(Orders(i)) /\ Cardinality(Orders(i)) \in Nat
<1>1. DOMAIN orders = 1..Len(orders) /\ Len(orders) \in Nat
  OBVIOUS
<1>2. IsFiniteSet(1..Len(orders))
  BY <1>1, FS_Interval
<1>3. Orders(i) \subseteq 1..Len(orders)
  BY <1>1 DEF Orders
<1>4. QED
  BY <1>2, <1>3, FS_Subset, FS_CardinalityType

\* One more order of a rule.
LEMMA OneMoreOrder ==
  ASSUME orders \in Seq(OrderRecord), NEW o \in OrderRecord, orders' = Append(orders, o), NEW i
  PROVE  /\ orders' \in Seq(OrderRecord) /\ orders' # orders /\ NewOrder = o
         /\ o.rule # i => Orders(i)' = Orders(i)
         /\ o.rule = i => Orders(i)' = Orders(i) \cup {Len(orders) + 1} /\ Len(orders) + 1 \notin Orders(i)
<1>1. /\ orders' \in Seq(OrderRecord) /\ Len(orders) \in Nat /\ Len(orders') = Len(orders) + 1
      /\ DOMAIN orders = 1..Len(orders) /\ DOMAIN orders' = 1..(Len(orders) + 1)
      /\ \A j \in 1..Len(orders) : orders'[j] = orders[j]
      /\ orders'[Len(orders) + 1] = o
  OBVIOUS
<1>2. orders' # orders
  <2>1. \A n \in Nat : n + 1 # n
    OBVIOUS
  <2>2. QED
    BY <1>1, <2>1
<1>3. NewOrder = o
  BY <1>1 DEF NewOrder, Last
<1>4. Orders(i)' = {j \in DOMAIN orders' : orders'[j].rule = i}
  BY DEF Orders
<1>5. \A j : j \in 1..(Len(orders) + 1) <=> j \in 1..Len(orders) \/ j = Len(orders) + 1
  BY <1>1
<1>6. o.rule # i => Orders(i)' = Orders(i)
  BY <1>1, <1>4, <1>5 DEF Orders
<1>7. o.rule = i => Orders(i)' = Orders(i) \cup {Len(orders) + 1} /\ Len(orders) + 1 \notin Orders(i)
  BY <1>1, <1>4, <1>5 DEF Orders
<1>8. QED
  BY <1>1, <1>2, <1>3, <1>6, <1>7

\* What is left alone keeps its invariant while trades go on.
LEMMA UntouchedKeeps ==
  ASSUME RowOK, NEW i \in DOMAIN plan.rules, RuleInv(i), plan' = plan, market'.at \in Nat, market.at <= market'.at,
         Orders(i)' = Orders(i), seen'[i] = seen[i], SameMarks(hist[i], hist'[i])
  PROVE  RuleInv(i)'
<1>1. Marks(hist[i])' /\ hist'[i].count \in Nat
  BY DEF SameMarks, Marks, RuleInv
<1>2. CrossingKnown(i)' /\ PurchasesMarked(i)' /\ PurchasesInLimit(i)'
  BY DEF SameMarks, RuleInv, CrossingKnown, PurchasesMarked, PurchasesInLimit, Counts, RuleAt
<1>3. StreakSeen(i)'
  BY DEF SameMarks, RuleInv, StreakSeen, Counted, RuleAt, RowOK
<1>4. QED
  BY <1>1, <1>2, <1>3 DEF RuleInv

\* What is demanded of an order of rule i.
Allowed(i) ==
  /\ RuleAt(i).trigger = "on_cross" => seen[i].failed
  /\ RuleAt(i).confirm = "true_for_scans" => Counted(seen'[i]) >= RuleAt(i).scans

\* A rule that was evaluated: its history follows the evaluation.
LEMMA StreakFollows ==
  ASSUME PlanOK, RowOK, NEW i \in DOMAIN plan.rules, RuleInv(i), plan' = plan,
         NEW q, TellsTrade(q), NEW e, NEW ordered,
         Carried(RuleAt(i), hist[i], hist'[i], e, q), seen'[i] = Saw(i, e, q.at, ordered),
         RuleAt(i).confirm = "true_for_scans"
  PROVE  StreakSeen(i)' /\ (e.evaluated /\ e.confirmed => Counted(seen'[i]) >= RuleAt(i).scans)
<1> DEFINE h == hist[i]
           g == hist'[i]
           T == seen[i].trades
           n == NewStreak(h, e.when, q)
           u == seen[i].untimed
<1>1. /\ h.confirmedAt \in Nat /\ h.confirmedAt <= market'.at /\ h.streak \in Nat /\ u \in Nat
      /\ IsFiniteSet(T) /\ T \subseteq 1..h.confirmedAt /\ h.streak <= Cardinality(T) + u /\ Cardinality(T) \in Nat
      /\ market'.at \in Nat /\ RuleAt(i).scans \in Nat
  <2>1. IsFiniteSet(T) => Cardinality(T) \in Nat
    BY FS_CardinalityType
  <2>2. market.at \in Nat
    BY DEF RowOK
  <2>3. QED
    BY <2>1, <2>2 DEF RuleInv, StreakSeen, Counted, TellsTrade, PlanOK, RuleOK, RuleAt
<1>2. StreakSeen(i)' <=> /\ g.confirmedAt \in 0..market'.at /\ g.streak \in Nat /\ seen'[i].untimed \in Nat
                         /\ IsFiniteSet(seen'[i].trades) /\ seen'[i].trades \subseteq 1..g.confirmedAt
                         /\ g.streak <= Counted(seen'[i])
  BY DEF StreakSeen, RuleAt
<1>3. CASE ~e.evaluated
  <2>1. seen'[i] = seen[i] /\ g.confirmedAt = h.confirmedAt /\ g.streak = h.streak
    BY <1>3 DEF Saw, Carried
  <2>2. Counted(seen'[i]) = Cardinality(T) + u
    BY <2>1 DEF Counted
  <2>3. QED
    <3> HIDE DEF g, h
    <3> QED BY <1>1, <1>2, <1>3, <2>1, <2>2
<1>4. CASE e.evaluated /\ ~e.when
  <2>1. seen'[i].trades = {} /\ seen'[i].untimed = 0
    BY <1>4 DEF Saw
  <2>2. g.confirmedAt = h.confirmedAt /\ g.streak = Lesser(0, RuleAt(i).scans) /\ (e.confirmed => 0 >= RuleAt(i).scans)
    BY <1>4 DEF Carried, Confirming, NewStreak
  <2>3. g.streak = 0
    BY <1>1, <2>2 DEF Lesser
  <2>4. Counted(seen'[i]) = 0
    BY <2>1, FS_EmptySet DEF Counted
  <2>5. QED
    <3> HIDE DEF g, h
    <3> QED BY <1>1, <1>2, <2>1, <2>2, <2>3, <2>4, FS_EmptySet
<1>5. ASSUME NEW U, seen'[i].trades = U, IsFiniteSet(U), U \subseteq 1..g.confirmedAt, g.confirmedAt \in 0..market'.at,
             NEW v \in Nat, seen'[i].untimed = v, n \in Nat, n <= Cardinality(U) + v,
             g.streak = Lesser(n, RuleAt(i).scans), e.confirmed => n >= RuleAt(i).scans
      PROVE  StreakSeen(i)' /\ (e.confirmed => Counted(seen'[i]) >= RuleAt(i).scans)
  <2>1. Counted(seen'[i]) = Cardinality(U) + v /\ Cardinality(U) \in Nat
    BY <1>5, FS_CardinalityType DEF Counted
  <2>2. g.streak \in Nat /\ g.streak <= n
    <3> HIDE DEF n, g
    <3> QED BY <1>1, <1>5 DEF Lesser
  <2>3. QED
    <3> HIDE DEF g, h, n
    <3> QED BY <1>1, <1>2, <1>5, <2>1, <2>2
<1>6. CASE e.evaluated /\ e.when /\ q.at = 0
  <2>1. seen'[i].trades = T /\ seen'[i].untimed = u + 1
    BY <1>6 DEF Saw
  <2>2. g.confirmedAt = h.confirmedAt /\ g.streak = Lesser(n, RuleAt(i).scans) /\ (e.confirmed => n >= RuleAt(i).scans)
    BY <1>6 DEF Carried, Confirming
  <2>3. n = h.streak + 1
    BY <1>6 DEF NewStreak
  <2>4. n \in Nat /\ n <= Cardinality(T) + (u + 1) /\ u + 1 \in Nat /\ g.confirmedAt \in 0..market'.at /\ T \subseteq 1..g.confirmedAt
    <3> HIDE DEF T, h, n, g, u
    <3> QED BY <1>1, <2>2, <2>3
  <2>5. QED
    <3> HIDE DEF T, h, n, g, u
    <3> QED BY <1>1, <1>5, <2>1, <2>2, <2>4
<1>7. CASE e.evaluated /\ e.when /\ q.at # 0
  <2> DEFINE U == T \cup {q.at}
  <2>1. seen'[i].trades = U /\ seen'[i].untimed = u
    BY <1>7 DEF Saw
  <2>2. g.confirmedAt = q.at /\ g.streak = Lesser(n, RuleAt(i).scans) /\ (e.confirmed => n >= RuleAt(i).scans)
    BY <1>7 DEF Carried, Confirming
  <2>3. n = (IF h.confirmedAt = q.at THEN h.streak ELSE h.streak + 1)
    BY <1>7 DEF NewStreak
  <2>4. q.at = market'.at /\ q.at \in Nat \ {0}
    BY <1>1, <1>7 DEF TellsTrade
  <2>5. /\ IsFiniteSet(U)
        /\ Cardinality(U) = (IF q.at \in T THEN Cardinality(T) ELSE Cardinality(T) + 1)
    <3> HIDE DEF T
    <3> QED BY <1>1, FS_AddElement
  <2>6. h.confirmedAt # q.at => q.at \notin T
    <3> HIDE DEF T, h
    <3> QED BY <1>1, <2>4
  <2>7. n \in Nat /\ n <= Cardinality(U) + u
    <3> HIDE DEF T, U, h, n, u
    <3> QED BY <1>1, <2>3, <2>5, <2>6
  <2>8. U \subseteq 1..g.confirmedAt /\ g.confirmedAt \in 0..market'.at
    <3>1. g.confirmedAt = q.at
      BY <2>2
    <3>2. T \subseteq 1..q.at
      <4> HIDE DEF T, h
      <4> QED BY <1>1, <2>4
    <3>3. q.at \in 1..q.at /\ q.at \in 0..market'.at
      BY <2>4
    <3>4. QED
      <4> HIDE DEF T, g
      <4> QED BY <3>1, <3>2, <3>3
  <2>9. QED
    <3> HIDE DEF T, U, h, n, g, u
    <3> QED BY <1>1, <1>5, <2>1, <2>2, <2>5, <2>7, <2>8
<1>8. QED
  BY <1>3, <1>4, <1>6, <1>7

LEMMA JudgedKeeps ==
  ASSUME PlanOK, RowOK, NEW i \in DOMAIN plan.rules, RuleInv(i), plan' = plan,
         NEW q, TellsTrade(q), NEW d, NEW e, NEW ordered,
         Decided(RuleAt(i), hist[i], d, e, q), hist'[i] = d.h, seen'[i] = Saw(i, e, q.at, ordered),
         \/ Orders(i)' = Orders(i)
         \/ /\ d.act = "EXECUTE" /\ d.price > 0
            /\ \E k : k \notin Orders(i) /\ Orders(i)' = Orders(i) \cup {k}
  PROVE  RuleInv(i)' /\ (d.act = "EXECUTE" => Allowed(i))
<1> DEFINE h == hist[i]
           r == RuleAt(i)
           m == Cardinality(Orders(i))
<1>1. Carried(r, h, hist'[i], e, q) /\ RuleAt(i)' = r /\ (Counts(i)' <=> Counts(i))
  BY DEF Decided, RuleAt, Counts
<1>2. r.confirm = "true_for_scans" =>
        StreakSeen(i)' /\ (e.evaluated /\ e.confirmed => Counted(seen'[i]) >= r.scans)
  BY <1>1, StreakFollows
<1>3. StreakSeen(i)'
  BY <1>1, <1>2 DEF StreakSeen
<1>4. CrossingKnown(i)'
  <2>1. CASE ~e.evaluated
    BY <1>1, <2>1 DEF Saw, Carried, RuleInv, CrossingKnown
  <2>2. CASE e.evaluated
    BY <1>1, <2>2 DEF Saw, Carried, CrossingKnown
  <2>3. QED
    BY <2>1, <2>2
<1>5. d.act = "EXECUTE" => Allowed(i)
  BY <1>2 DEF Decided, Allowed, RuleInv, CrossingKnown
<1>6. IsFiniteSet(Orders(i)) /\ m \in Nat /\ h.count \in Nat /\ r.maxTimes \in Nat
  BY FiniteOrders DEF RowOK, RuleInv, PlanOK, RuleOK, RuleAt
<1>7. hist'[i].count \in Nat /\ hist'[i].count >= h.count /\ (h.executed => hist'[i].executed)
  BY <1>6 DEF Decided, MarkedBy
<1>8. CASE Orders(i)' = Orders(i)
  <2>1. PurchasesMarked(i)'
    BY <1>1, <1>6, <1>7, <1>8 DEF PurchasesMarked, RuleInv
  <2>2. PurchasesInLimit(i)'
    BY <1>1, <1>8 DEF PurchasesInLimit, RuleInv
  <2>3. QED
    BY <1>1, <1>3, <1>4, <1>5, <1>7, <2>1, <2>2 DEF RuleInv, Carried
<1>9. CASE Orders(i)' # Orders(i)
  <2>1. PICK k : k \notin Orders(i) /\ Orders(i)' = Orders(i) \cup {k}
    BY <1>9
  <2>2. d.act = "EXECUTE" /\ d.price > 0
    BY <1>9
  <2>3. Cardinality(Orders(i))' = m + 1
    <3>1. Cardinality(Orders(i) \cup {k}) = m + 1
      BY <1>6, <2>1, FS_AddElement
    <3>2. QED
      BY <2>1, <3>1
  <2>4. Counts(i) => hist'[i].executed /\ hist'[i].count = h.count + 1
    BY <2>2 DEF Decided, MarkedBy, Counts, RuleAt
  <2>5. PurchasesMarked(i)'
    BY <1>1, <1>6, <2>3, <2>4 DEF PurchasesMarked, RuleInv
  <2>6. PurchasesInLimit(i)'
    <3>1. ASSUME Counts(i), r.frequency = "once" PROVE m = 0
      <4>1. ~h.executed
        BY <2>2, <3>1 DEF Decided, MayOrder
      <4>2. Orders(i) = {}
        BY <3>1, <4>1 DEF RuleInv, PurchasesMarked
      <4>3. QED
        BY <4>2, FS_EmptySet
    <3>2. ASSUME Counts(i), r.maxTimes # 0 PROVE m + 1 <= r.maxTimes
      <4>1. ~(h.count >= r.maxTimes)
        BY <2>2, <3>2 DEF Decided, MayOrder
      <4>2. m <= h.count
        BY <3>2 DEF RuleInv, PurchasesMarked
      <4>3. QED
        <5> HIDE DEF m, h, r
        <5> QED BY <1>6, <4>1, <4>2
    <3>3. QED
      BY <1>1, <1>6, <2>3, <3>1, <3>2 DEF PurchasesInLimit
  <2>7. QED
    BY <1>1, <1>3, <1>4, <1>5, <1>7, <2>5, <2>6 DEF RuleInv, Carried
<1>10. QED
  BY <1>8, <1>9

\* What a step of the rules must show.
OnlyAllowed == orders' # orders /\ NewOrder.rule # 0 => Allowed(NewOrder.rule)

LEMMA WholeLotsKeep ==
  ASSUME RowOK, WholeLots, plan' = plan, NEW o \in OrderRecord, plan.odd \/ WholeLot(o), orders' = Append(orders, o)
  PROVE  WholeLots'
<1>1. /\ Len(orders) \in Nat /\ DOMAIN orders = 1..Len(orders) /\ DOMAIN orders' = 1..(Len(orders) + 1)
      /\ \A j \in 1..Len(orders) : orders'[j] = orders[j]
      /\ orders'[Len(orders) + 1] = o
  BY DEF RowOK
<1>2. WholeLots <=> (plan.odd \/ \A j \in DOMAIN orders : WholeLot(orders[j]))
  BY DEF WholeLots, WholeLot
<1>3. WholeLots' <=> (plan.odd \/ \A j \in DOMAIN orders' : WholeLot(orders'[j]))
  BY DEF WholeLots, WholeLot
<1>4. \A j : j \in 1..(Len(orders) + 1) <=> j \in 1..Len(orders) \/ j = Len(orders) + 1
  BY <1>1
<1>5. QED
  BY <1>1, <1>2, <1>3, <1>4

\* An order of a decision is an order of its rule; rule 0 stands for none.
LEMMA SentIs ==
  ASSUME RowOK, WholeLots, plan' = plan, NEW d, NEW rule \in Nat, orders' = orders \/ SentFor(d, rule)
  PROVE  /\ orders' \in Seq(OrderRecord) /\ WholeLots'
         /\ \A i \in Nat : \/ Orders(i)' = Orders(i)
                           \/ /\ i = rule /\ d.price > 0
                              /\ \E k : k \notin Orders(i) /\ Orders(i)' = Orders(i) \cup {k}
         /\ orders' # orders => NewOrder.rule = rule
<1>1. CASE orders' = orders
  BY <1>1 DEF RowOK, WholeLots, Orders
<1>2. CASE SentFor(d, rule)
  <2>1. PICK o \in OrderRecord : /\ orders' = Append(orders, o) /\ o.rule = rule
                                 /\ d.price > 0 /\ (plan.odd \/ WholeLot(o))
    BY <1>2 DEF SentFor
  <2>2. WholeLots'
    BY <2>1, WholeLotsKeep
  <2>3. /\ orders' \in Seq(OrderRecord) /\ NewOrder = o
        /\ \A i : /\ o.rule # i => Orders(i)' = Orders(i)
                  /\ o.rule = i => Orders(i)' = Orders(i) \cup {Len(orders) + 1} /\ Len(orders) + 1 \notin Orders(i)
    BY <2>1, OneMoreOrder DEF RowOK
  <2>4. QED
    BY <2>1, <2>2, <2>3
<1>3. QED
  BY <1>1, <1>2

\* The decisions of the rules are obeyed.
LEMMA ObeyKeeps ==
  ASSUME RulesIInv, NEW q, TellsTrade(q), market' \in [ltp : Nat, at : Nat],
         plan' = plan, time' = time, NEW w, DOMAIN w = DOMAIN plan.rules,
         \A i \in DOMAIN w : Decided(RuleAt(i), hist[i], w[i].d, w[i].e, q),
         NEW last \in DOMAIN w, NEW held \in Nat, Obey(q, w, last, held)
  PROVE  RulesIInv' /\ OnlyAllowed
<1> DEFINE d == w[last].d
           ordered(i) == i = last /\ orders' # orders
           followed == /\ hist' = [i \in DOMAIN w |-> IF i <= last THEN w[i].d.h ELSE hist[i]]
                       /\ seen' = [i \in DOMAIN w |-> IF i <= last THEN Saw(i, w[i].e, q.at, ordered(i)) ELSE seen[i]]
           sent == \/ orders' = orders
                   \/ d.act \in {"EXECUTE", "EXIT"} /\ SentFor(d, IF d.act = "EXIT" THEN 0 ELSE last)
<1>1. PlanOK /\ RowOK /\ WholeLots /\ DOMAIN plan.rules = 1..Len(plan.rules) /\ Len(plan.rules) \in Nat
  BY PlansOK DEF RulesIInv, RowOK, PlanOK
<1>2. last \in Nat \ {0} /\ \A i \in DOMAIN w : i \in Nat \ {0}
  BY <1>1
<1>3. CASE ~RiskAllows(d) /\ Tracked /\ UNCHANGED <<hist, seen>>
  <2>1. orders' = orders /\ left' = left
    BY <1>3 DEF Tracked
  <2>2. RowOK' /\ WholeLots'
    BY <1>1, <1>3, <2>1 DEF RowOK, WholeLots
  <2>3. ASSUME NEW i \in DOMAIN plan.rules PROVE RuleInv(i)'
    <3>1. SameMarks(hist[i], hist'[i]) /\ Orders(i)' = Orders(i) /\ seen'[i] = seen[i]
      BY <1>3, <2>1 DEF RulesIInv, RuleInv, SameMarks, Orders
    <3>2. QED
      BY <1>1, <3>1, UntouchedKeeps DEF RulesIInv, TellsTrade
  <2>4. QED
    BY <2>1, <2>2, <2>3 DEF RulesIInv, OnlyAllowed
<1>4. ASSUME followed, left' \in Nat, sent
      PROVE  RulesIInv' /\ OnlyAllowed
  <2>1. /\ orders' \in Seq(OrderRecord) /\ WholeLots'
        /\ \A i \in Nat \ {0} : \/ Orders(i)' = Orders(i)
                                \/ /\ i = last /\ d.act = "EXECUTE" /\ d.price > 0
                                   /\ \E k : k \notin Orders(i) /\ Orders(i)' = Orders(i) \cup {k}
        /\ orders' # orders /\ NewOrder.rule # 0 => NewOrder.rule = last /\ d.act = "EXECUTE"
    <3> DEFINE rule == IF d.act = "EXIT" THEN 0 ELSE last
    <3>1. rule \in Nat /\ (orders' = orders \/ SentFor(d, rule))
      BY <1>2, <1>4 DEF sent
    <3>2. /\ orders' \in Seq(OrderRecord) /\ WholeLots'
          /\ \A i \in Nat : \/ Orders(i)' = Orders(i)
                            \/ /\ i = rule /\ d.price > 0
                               /\ \E k : k \notin Orders(i) /\ Orders(i)' = Orders(i) \cup {k}
          /\ orders' # orders => NewOrder.rule = rule
      <4> HIDE DEF rule, d
      <4> QED BY <1>1, <3>1, SentIs
    <3>3. orders' # orders => d.act \in {"EXECUTE", "EXIT"}
      BY <1>4 DEF sent
    <3>4. \A i \in Nat : Orders(i)' # Orders(i) => orders' # orders
      BY DEF Orders
    <3>5. QED
      <4> HIDE DEF d
      <4> QED BY <1>2, <3>2, <3>3, <3>4
  <2>2. RowOK'
    BY <1>1, <1>4, <2>1 DEF RowOK
  <2>3. ASSUME NEW i \in DOMAIN plan.rules, i <= last
        PROVE  RuleInv(i)' /\ (w[i].d.act = "EXECUTE" => Allowed(i))
    <3>1. hist'[i] = w[i].d.h /\ seen'[i] = Saw(i, w[i].e, q.at, ordered(i))
      BY <1>4, <2>3
    <3>2. \/ Orders(i)' = Orders(i)
          \/ /\ w[i].d.act = "EXECUTE" /\ w[i].d.price > 0
             /\ \E k : k \notin Orders(i) /\ Orders(i)' = Orders(i) \cup {k}
      BY <1>2, <2>1
    <3>3. Decided(RuleAt(i), hist[i], w[i].d, w[i].e, q) /\ RuleInv(i)
      BY DEF RulesIInv
    <3>4. QED
      <4> HIDE DEF ordered
      <4> QED BY <1>1, <3>1, <3>2, <3>3, JudgedKeeps
  <2>4. ASSUME NEW i \in DOMAIN plan.rules, ~(i <= last) PROVE RuleInv(i)'
    <3>1. hist'[i] = hist[i] /\ seen'[i] = seen[i]
      BY <1>4, <2>4
    <3>2. Orders(i)' = Orders(i)
      BY <1>2, <2>1, <2>4
    <3>3. RuleInv(i) /\ SameMarks(hist[i], hist'[i])
      BY <3>1 DEF RulesIInv, RuleInv, SameMarks
    <3>4. QED
      BY <1>1, <3>1, <3>2, <3>3, UntouchedKeeps DEF TellsTrade
  <2>5. OnlyAllowed
    <3>1. last \in DOMAIN plan.rules /\ last <= last
      BY <1>2
    <3>2. QED
      BY <2>1, <2>3, <3>1 DEF OnlyAllowed
  <2>6. QED
    BY <2>1, <2>2, <2>3, <2>4, <2>5 DEF RulesIInv
<1>5. CASE d.act \in {"TRACK", "NO_TRADE"} /\ Tracked /\ followed
  <2>1. orders' = orders /\ left' \in Nat
    BY <1>1, <1>5 DEF Tracked, RowOK
  <2>2. sent
    BY <2>1 DEF sent
  <2>3. QED
    <3> HIDE DEF sent, followed
    <3> QED BY <1>4, <1>5, <2>1, <2>2
<1>6. CASE d.act \in {"EXECUTE", "EXIT"} /\ Submit(d, IF d.act = "EXIT" THEN 0 ELSE last, held) /\ followed
  <2> DEFINE rule == IF d.act = "EXIT" THEN 0 ELSE last
  <2>1. rule \in Nat
    BY <1>2
  <2>2. d.price \in Nat /\ d.qty \in Int /\ d.value \in Int
    BY DEF Decided
  <2>3. left' \in Nat /\ (orders' = orders \/ SentFor(d, rule))
    <3> HIDE DEF d
    <3>1. Submit(d, rule, held)
      BY <1>6
    <3>2. QED
      <4> HIDE DEF rule
      <4> QED BY <1>1, <2>1, <2>2, <3>1, SubmitIs DEF RowOK
  <2>4. sent
    BY <1>6, <2>3 DEF sent
  <2>5. QED
    <3> HIDE DEF sent, followed
    <3> QED BY <1>4, <1>6, <2>3, <2>4
<1>7. QED
  BY <1>3, <1>5, <1>6 DEF Obey

\* Steps in which no rule decides.
LEMMA NoRuleKeeps ==
  ASSUME RulesIInv, plan' = plan, market' \in [ltp : Nat, at : Nat], market.at <= market'.at,
         time' \in {"before", "expired", "late"}, DOMAIN hist' = DOMAIN hist, seen' = seen, left' \in Nat,
         \A i \in DOMAIN hist : SameMarks(hist[i], hist'[i]),
         NEW d, orders' = orders \/ SentFor(d, 0)
  PROVE  RulesIInv' /\ OnlyAllowed
<1>1. RowOK /\ WholeLots /\ DOMAIN plan.rules = 1..Len(plan.rules) /\ Len(plan.rules) \in Nat
  BY PlansOK DEF RulesIInv, RowOK, PlanOK
<1>2. /\ orders' \in Seq(OrderRecord) /\ WholeLots'
      /\ \A i \in Nat : Orders(i)' = Orders(i) \/ i = 0
      /\ orders' # orders => NewOrder.rule = 0
  <2> DEFINE rule == 0
  <2>1. rule \in Nat /\ (orders' = orders \/ SentFor(d, rule))
    OBVIOUS
  <2>2. /\ orders' \in Seq(OrderRecord) /\ WholeLots'
        /\ \A i \in Nat : \/ Orders(i)' = Orders(i)
                          \/ /\ i = rule /\ d.price > 0
                             /\ \E k : k \notin Orders(i) /\ Orders(i)' = Orders(i) \cup {k}
        /\ orders' # orders => NewOrder.rule = rule
    <3> HIDE DEF rule
    <3> QED BY <1>1, <2>1, SentIs
  <2>3. QED
    BY <2>2
<1>3. RowOK'
  BY <1>1, <1>2 DEF RowOK
<1>4. ASSUME NEW i \in DOMAIN plan.rules PROVE RuleInv(i)'
  <2>1. Orders(i)' = Orders(i) /\ i \in DOMAIN hist
    BY <1>1, <1>2 DEF RowOK
  <2>2. market'.at \in Nat /\ RuleInv(i) /\ SameMarks(hist[i], hist'[i])
    BY <2>1 DEF RulesIInv
  <2>3. QED
    BY <1>1, <2>1, <2>2, UntouchedKeeps
<1>5. QED
  BY <1>2, <1>3, <1>4 DEF RulesIInv, OnlyAllowed

\* The rules are evaluated up to the first that fires.
LEMMA EvaluateKeeps ==
  ASSUME RulesIInv, NEW q, QuoteOK(q), TellsTrade(q), market' \in [ltp : Nat, at : Nat],
         plan' = plan, time' = time, NEW mem, NEW offers, NEW held \in Nat, Evaluate(q, mem, offers, held)
  PROVE  RulesIInv' /\ OnlyAllowed
<1> DEFINE w == [i \in DOMAIN hist |-> Decide(plan.rules[i], Started(i, q, mem), q, offers)]
           last == Min(Firing(w) \cup {Len(w)})
<1>1. PlanOK /\ DOMAIN plan.rules = 1..Len(plan.rules) /\ Len(plan.rules) \in Nat \ {0}
      /\ DOMAIN hist = DOMAIN plan.rules /\ left \in Nat /\ q.at \in Nat
  BY PlansOK DEF RulesIInv, RowOK, PlanOK, QuoteOK
<1>2. DOMAIN w = DOMAIN plan.rules /\ Len(w) = Len(plan.rules)
  <2>1. DOMAIN w = 1..Len(plan.rules)
    BY <1>1
  <2>2. Len(w) = Len(plan.rules)
    <3> HIDE DEF w
    <3>1. w = [i \in 1..Len(plan.rules) |-> w[i]]
      BY <1>1 DEF w
    <3>2. QED
      BY <1>1, <3>1
  <2>3. QED
    BY <1>1, <2>1, <2>2
<1>3. last \in DOMAIN w
  <2> DEFINE S == Firing(w) \cup {Len(w)}
  <2>1. Firing(w) \subseteq DOMAIN w
    <3> HIDE DEF w
    <3> QED BY DEF Firing
  <2>2. S \subseteq DOMAIN w /\ S \subseteq Nat /\ S # {}
    <3> HIDE DEF w
    <3> QED BY <1>1, <1>2, <2>1
  <2>3. \E m \in S : \A n \in S : m <= n
    <3> HIDE DEF S
    <3> QED BY <2>2, LeastExists
  <2>4. last \in S
    <3> HIDE DEF w
    <3> QED BY <2>3 DEF Min
  <2>5. QED
    <3> HIDE DEF S, w, last
    <3> QED BY <2>2, <2>4
<1>4. \A i \in DOMAIN w : Decided(RuleAt(i), hist[i], w[i].d, w[i].e, q)
  <2> SUFFICES ASSUME NEW i \in DOMAIN plan.rules PROVE Decided(RuleAt(i), hist[i], w[i].d, w[i].e, q)
    BY <1>1
  <2>1. Marks(hist[i])
    BY DEF RulesIInv, RuleInv
  <2>2. w[i] = Decide(plan.rules[i], Started(i, q, mem), q, offers)
    BY <1>1
  <2>3. QED
    <3> HIDE DEF w
    <3> QED BY <1>1, <2>1, <2>2, DecideIs DEF RuleAt
<1>5. Obey(q, w, last, held)
  BY DEF Evaluate
<1>6. QED
  <2> HIDE DEF w, last
  <2> QED BY <1>1, <1>2, <1>3, <1>4, <1>5, ObeyKeeps

\* An order at its expiration is sent at most for no rule.
LEMMA ExpireKeeps ==
  ASSUME RulesIInv, NEW q, QuoteOK(q), TellsTrade(q), market' \in [ltp : Nat, at : Nat],
         plan' = plan, time' = time, NEW held \in Nat, Expire(q, held)
  PROVE  RulesIInv' /\ OnlyAllowed
<1> DEFINE d == Wants(NoHistory, BuyLimit(q, plan.slip), left, "quantity", 0)
<1>1. PlanOK /\ RowOK /\ left \in Nat /\ time \in {"before", "expired", "late"} /\ \A i \in DOMAIN hist : SameMarks(hist[i], hist[i])
  BY PlansOK DEF RulesIInv, RowOK, RuleInv, SameMarks
<1>2. hist' = hist /\ seen' = seen
  BY DEF Expire, Await, Ends, ExpiryOrder
<1>3. left' \in Nat /\ (orders' = orders \/ SentFor(d, 0))
  <2>1. CASE ExpiryOrder(q, held)
    <3>1. BuyLimit(q, plan.slip) \in Nat
      BY <1>1, BuyLimitType DEF PlanOK
    <3>2. d.price = BuyLimit(q, plan.slip) /\ d.qty = left /\ d.value = 0
      BY DEF Wants
    <3>3. Submit(d, 0, held)
      BY <2>1 DEF ExpiryOrder
    <3>4. QED
      <4> HIDE DEF d
      <4> QED BY <1>1, <3>1, <3>2, <3>3, SubmitIs
  <2>2. CASE Ends \/ \E flag : Await(flag)
    BY <1>1, <2>2 DEF Ends, Await, Kept, Tracked
  <2>3. QED
    BY <2>1, <2>2 DEF Expire
<1>4. QED
  <2> HIDE DEF d
  <2> QED BY <1>1, <1>2, <1>3, NoRuleKeeps DEF TellsTrade

LEMMA ScanKeeps ==
  ASSUME RulesIInv, NEW price \in Prices, NEW traded \in BOOLEAN, NEW timed \in BOOLEAN, NEW fresh, NEW book \in Books,
         NEW offers, NEW held \in Nat, Scan(price, traded, timed, fresh, book, offers, held)
  PROVE  RulesIInv' /\ OnlyAllowed
<1> DEFINE trade == IF traded THEN market.at + 1 ELSE market.at
           q == Quoted(price, IF timed THEN trade ELSE 0, fresh, book)
           mem == LastN(Append(recent, price), 3)
<1>1. price \in Nat /\ book \in [bid : Nat, bidQty : Nat, ask : Nat, askQty : Nat] /\ market \in [ltp : Nat, at : Nat]
  BY RuleConstants DEF RulesIInv, RowOK
<1>2. trade \in Nat /\ market.at <= trade /\ (~traded => trade = market.at)
  BY <1>1
<1>3. QuoteOK(q) /\ q.at \in {0, trade}
  <2> HIDE DEF trade
  <2> QED BY <1>1, <1>2 DEF QuoteOK, Quoted
<1>4. market' \in [ltp : Nat, at : Nat] /\ market'.at = trade
  <2>1. market' = IF price = 0 THEN market ELSE [ltp |-> price, at |-> trade]
    BY DEF Scan
  <2>2. price = 0 => ~traded
    BY DEF Scan
  <2>3. QED
    <3> HIDE DEF trade
    <3> QED BY <1>1, <1>2, <2>1, <2>2
<1>5. TellsTrade(q)
  <2> HIDE DEF trade, q
  <2> QED BY <1>2, <1>3, <1>4 DEF TellsTrade
<1>6. plan' = plan /\ time' = time /\ (Evaluate(q, mem, offers, held) \/ Expire(q, held))
  BY DEF Scan
<1>7. QED
  <2> HIDE DEF q, mem
  <2> QED BY <1>3, <1>4, <1>5, <1>6, EvaluateKeeps, ExpireKeeps

LEMMA RulesInductiveInit ==
  ASSUME Init
  PROVE  RulesIInv
<1>1. /\ plan \in Plans /\ hist = [i \in DOMAIN plan.rules |-> NoHistory] /\ orders = <<>>
      /\ seen = [i \in DOMAIN plan.rules |-> [trades |-> {}, untimed |-> 0, failed |-> TRUE]]
      /\ market = [ltp |-> 0, at |-> 0] /\ time = "before" /\ left = plan.qty
  BY DEF Init
<1>2. PlanOK
  BY <1>1, PlansOK
<1>3. RowOK /\ WholeLots
  BY <1>1, <1>2 DEF RowOK, WholeLots, PlanOK
<1>4. \A i : Orders(i) = {}
  BY <1>1 DEF Orders
<1>5. ASSUME NEW i \in DOMAIN plan.rules PROVE RuleInv(i)
  <2>1. hist[i] = NoHistory /\ seen[i].failed /\ seen[i].trades = {} /\ seen[i].untimed = 0
    BY <1>1
  <2>2. Cardinality({}) = 0 /\ IsFiniteSet({})
    BY FS_EmptySet
  <2>3. Marks(hist[i]) /\ hist[i].count = 0 /\ hist[i].streak = 0 /\ hist[i].confirmedAt = 0
    BY <2>1 DEF NoHistory, Marks
  <2>4. RuleAt(i).maxTimes \in Nat
    BY <1>2 DEF PlanOK, RuleOK, RuleAt
  <2>5. Counted(seen[i]) = 0
    BY <2>1, <2>2 DEF Counted
  <2>6. CrossingKnown(i) /\ StreakSeen(i)
    BY <1>1, <2>1, <2>2, <2>3, <2>5 DEF CrossingKnown, StreakSeen
  <2>7. PurchasesMarked(i) /\ PurchasesInLimit(i)
    BY <1>4, <2>2, <2>3, <2>4 DEF PurchasesMarked, PurchasesInLimit
  <2>8. QED
    BY <2>3, <2>6, <2>7 DEF RuleInv
<1>6. QED
  BY <1>3, <1>5 DEF RulesIInv

LEMMA RulesInductiveStep ==
  ASSUME RulesIInv, [Next]_vars
  PROVE  RulesIInv' /\ (UNCHANGED vars \/ OnlyAllowed)
<1>1. RowOK /\ \A i \in DOMAIN hist : SameMarks(hist[i], hist[i])
  BY DEF RulesIInv, RowOK, RuleInv, SameMarks
<1>2. ASSUME NEW price \in Prices, NEW traded \in BOOLEAN, NEW timed \in BOOLEAN, NEW book \in Books, NEW fresh, NEW offers,
             NEW held \in (IF plan.side = "sell" THEN Holdings ELSE {0}), Scan(price, traded, timed, fresh, book, offers, held)
      PROVE  RulesIInv' /\ OnlyAllowed
  <2>1. held \in Nat
    BY RuleConstants
  <2>2. QED
    BY <1>2, <2>1, ScanKeeps
<1>3. CASE TimePasses
  <2>1. /\ UNCHANGED <<plan, hist, market, left, orders, seen>> /\ time' \in {"before", "expired", "late"}
    BY <1>3 DEF TimePasses
  <2>2. market' \in [ltp : Nat, at : Nat] /\ market.at <= market'.at /\ left' \in Nat
    BY <1>1, <2>1 DEF RowOK
  <2>3. QED
    BY <1>1, <2>1, <2>2, NoRuleKeeps
<1>4. CASE CoolDown
  <2>1. /\ UNCHANGED <<plan, market, time, left, orders, seen>>
        /\ hist' = [i \in DOMAIN hist |-> [hist[i] EXCEPT !.cooling = FALSE]]
    BY <1>4 DEF CoolDown
  <2>2. /\ market' \in [ltp : Nat, at : Nat] /\ market.at <= market'.at /\ left' \in Nat
        /\ time' \in {"before", "expired", "late"}
    BY <1>1, <2>1 DEF RowOK
  <2>3. DOMAIN hist' = DOMAIN hist /\ \A i \in DOMAIN hist : SameMarks(hist[i], hist'[i])
    <3>1. \A i \in DOMAIN hist : Marks(hist[i])
      BY <1>1 DEF SameMarks
    <3>2. QED
      BY <2>1, <3>1 DEF SameMarks, Marks
  <2>4. QED
    BY <2>1, <2>2, <2>3, NoRuleKeeps
<1>5. CASE UNCHANGED vars
  <2>1. UNCHANGED <<plan, hist, market, time, left, orders, seen>>
    BY <1>5 DEF vars
  <2>2. /\ market' \in [ltp : Nat, at : Nat] /\ market.at <= market'.at /\ left' \in Nat
        /\ time' \in {"before", "expired", "late"}
    BY <1>1, <2>1 DEF RowOK
  <2>3. QED
    BY <1>1, <1>5, <2>1, <2>2, NoRuleKeeps
<1>6. CASE Next
  <2>1. Next => \/ \E price \in Prices, traded, timed \in BOOLEAN, book \in Books :
                     \E fresh, offers : \E held \in IF plan.side = "sell" THEN Holdings ELSE {0} :
                       Scan(price, traded, timed, fresh, book, offers, held)
                \/ TimePasses \/ CoolDown
    BY Zenon DEF Next
  <2>2. QED
    BY <1>2, <1>3, <1>4, <1>6, <2>1, Zenon
<1>7. QED
  BY <1>5, <1>6

\* The inductive invariant of a rule-based order.
THEOREM RulesInvariant == Spec => []RulesIInv
<1>1. Init => RulesIInv
  BY RulesInductiveInit
<1>2. RulesIInv /\ [Next]_vars => RulesIInv'
  BY RulesInductiveStep
<1>3. QED
  BY <1>1, <1>2, PTL DEF Spec

\* Every order the broker accepted is of whole lots, or leaves whole lots, whichever check of
\* the quantity it passed (_validate_execution_lot_rule, normalize_sell_qty).
THEOREM WholeLotsEver == Spec => []WholeLots
<1>1. RulesIInv => WholeLots
  BY DEF RulesIInv
<1>2. QED
  BY <1>1, RulesInvariant, PTL

\* A buying rule with a limit of executions never buys more often, whatever is kept back,
\* refused or expires between its purchases (_mark_rule_execution, frequency and max_times).
THEOREM LimitsEver == Spec => []PurchasesLimited
<1>1. RulesIInv => PurchasesLimited
  BY DEF RulesIInv, RuleInv, PurchasesInLimit, PurchasesLimited, Counts, RuleAt
<1>2. QED
  BY <1>1, RulesInvariant, PTL

\* A rule on a cross orders only after its condition failed, and one that confirms over scans
\* only after that many distinct trades in a row (evaluate_rule), at every step of every order.
THEOREM CrossingsEver == Spec => OnePerCrossing
<1>1. RulesIInv /\ [Next]_vars => [orders' # orders /\ NewOrder.rule # 0 => Rearmed /\ ConfirmedByTrades]_vars
  <2>1. OnlyAllowed => (orders' # orders /\ NewOrder.rule # 0 => Rearmed /\ ConfirmedByTrades)
    BY DEF OnlyAllowed, Allowed, Counted, Rearmed, ConfirmedByTrades, RuleAt
  <2>2. QED
    BY <2>1, RulesInductiveStep
<1>2. QED
  BY <1>1, RulesInvariant, PTL DEF Spec, OnePerCrossing

-----------------------------------------------------------------------------
(* Sums over sequences: the function that Shares chooses exists.           *)

Sums(f, s, k) == f = [n \in 0..k |-> IF n = 0 THEN 0 ELSE f[n - 1] + s[n].qty]

LEMMA SumExtends ==
  ASSUME NEW s, NEW k \in Nat, NEW f, Sums(f, s, k)
  PROVE  \E g : Sums(g, s, k + 1)
<1> DEFINE g == [n \in 0..(k + 1) |-> IF n = k + 1 THEN f[k] + s[n].qty ELSE f[n]]
<1>1. \A n \in 0..k : f[n] = IF n = 0 THEN 0 ELSE f[n - 1] + s[n].qty
  BY DEF Sums
<1>2. \A n \in 0..(k + 1) : g[n] = IF n = 0 THEN 0 ELSE g[n - 1] + s[n].qty
  <2> TAKE n \in 0..(k + 1)
  <2>1. CASE n = k + 1
    BY <2>1
  <2>2. CASE n # k + 1
    <3>1. n \in 0..k /\ g[n] = f[n] /\ (n # 0 => n - 1 \in 0..k /\ g[n - 1] = f[n - 1])
      BY <2>2
    <3>2. QED
      BY <3>1, <1>1
  <2>3. QED
    BY <2>1, <2>2
<1>3. g = [n \in 0..(k + 1) |-> g[n]]
  OBVIOUS
<1>4. QED
  <2> HIDE DEF g
  <2>1. Sums(g, s, k + 1)
    BY <1>2, <1>3, Zenon DEF Sums
  <2>2. QED
    BY <2>1

\* By induction on the length: a shortest one without a sum would have one.
LEMMA SumExists ==
  ASSUME NEW s, NEW k \in Nat
  PROVE  \E f : Sums(f, s, k)
<1> DEFINE Bad == {n \in Nat : ~\E f : Sums(f, s, n)}
<1>1. SUFFICES ASSUME Bad # {} PROVE FALSE
  BY <1>1
<1>2. PICK m \in Bad : \A n \in Bad : m <= n
  <2> Bad \subseteq Nat
    OBVIOUS
  <2> HIDE DEF Bad
  <2> QED BY <1>1, LeastExists
<1>3. m # 0
  <2>1. Sums([n \in 0..0 |-> 0], s, 0)
    BY DEF Sums
  <2>2. QED
    BY <2>1
<1>4. m - 1 \in Nat /\ m - 1 \notin Bad /\ m = (m - 1) + 1
  BY <1>2, <1>3
<1>5. \E f : Sums(f, s, m)
  <2>1. PICK f : Sums(f, s, m - 1)
    BY <1>4
  <2>2. QED
    <3> HIDE DEF Bad
    <3> QED BY <1>4, <2>1, SumExtends
<1>6. QED
  BY <1>2, <1>5

LEMMA SharesAre ==
  ASSUME NEW s, Len(s) \in Nat
  PROVE  \E f : Sums(f, s, Len(s)) /\ Builtin!Shares(s) = f[Len(s)]
<1> DEFINE g == CHOOSE sum : sum = [n \in 0..Len(s) |-> IF n = 0 THEN 0 ELSE sum[n - 1] + s[n].qty]
<1>1. \E f : Sums(f, s, Len(s))
  BY SumExists
<1>2. g = [n \in 0..Len(s) |-> IF n = 0 THEN 0 ELSE g[n - 1] + s[n].qty]
  BY <1>1 DEF Sums
<1>3. Builtin!Shares(s) = g[Len(s)]
  BY DEF Builtin!Shares
<1>4. QED
  <2> HIDE DEF g
  <2> QED BY <1>2, <1>3 DEF Sums

\* Two sums of sequences that agree on a prefix agree on it.
LEMMA SumsAgree ==
  ASSUME NEW s, NEW t, NEW k \in Nat, NEW l \in Nat, k <= l, NEW f, Sums(f, s, k), NEW g, Sums(g, t, l),
         \A n \in 1..k : s[n] = t[n]
  PROVE  f[k] = g[k]
<1> DEFINE Bad == {n \in 0..k : f[n] # g[n]}
<1>1. /\ \A n \in 0..k : f[n] = IF n = 0 THEN 0 ELSE f[n - 1] + s[n].qty
      /\ \A n \in 0..l : g[n] = IF n = 0 THEN 0 ELSE g[n - 1] + t[n].qty
  BY DEF Sums
<1>2. SUFFICES ASSUME Bad # {} PROVE FALSE
  BY <1>2
<1>3. PICK m \in Bad : \A n \in Bad : m <= n
  <2> Bad \subseteq Nat
    OBVIOUS
  <2> HIDE DEF Bad
  <2> QED BY <1>2, LeastExists
<1>4. m \in 0..k /\ m # 0 /\ f[m] # g[m]
  BY <1>1, <1>3
<1>5. m - 1 \in 0..k /\ m - 1 \notin Bad
  BY <1>3, <1>4
<1>6. f[m - 1] = g[m - 1] /\ s[m] = t[m]
  BY <1>4, <1>5
<1>7. QED
  BY <1>1, <1>4, <1>6

LEMMA SharesOfNone == Builtin!Shares(<<>>) = 0
<1>1. PICK f : Sums(f, <<>>, 0) /\ Builtin!Shares(<<>>) = f[0]
  BY SharesAre
<1>2. QED
  BY <1>1 DEF Sums

LEMMA SharesOfAppend ==
  ASSUME NEW S, NEW s \in Seq(S), NEW x \in S
  PROVE  Builtin!Shares(Append(s, x)) = Builtin!Shares(s) + x.qty
<1> DEFINE t == Append(s, x)
           l == Len(s)
<1>1. /\ l \in Nat /\ Len(t) = l + 1 /\ t[l + 1] = x
      /\ \A n \in 1..l : s[n] = t[n]
  OBVIOUS
<1> HIDE DEF t, l
<1>2. PICK f : Sums(f, s, l) /\ Builtin!Shares(s) = f[l]
  BY <1>1, SharesAre DEF l
<1>3. PICK g : Sums(g, t, l + 1) /\ Builtin!Shares(t) = g[l + 1]
  BY <1>1, SharesAre
<1>4. f[l] = g[l]
  BY <1>1, <1>2, <1>3, SumsAgree
<1>5. g[l + 1] = g[l] + x.qty
  BY <1>1, <1>3 DEF Sums
<1>6. QED
  BY <1>2, <1>3, <1>4, <1>5 DEF t

-----------------------------------------------------------------------------
(* Built-in strategies: the inductive invariant.                           *)

\* A row as the strategies write it, whatever they track in it.
RowShape(r) ==
  /\ r = [peak |-> r.peak, below |-> r.below, reached |-> r.reached, sold |-> r.sold, left |-> r.left, last |-> r.last]
  /\ r.left \in Nat /\ r.below \in Nat

\* What was sold and what is left are the order's quantity.
SalesCounted ==
  /\ \E S : sales \in Seq(S)
  /\ Builtin!Shares(sales) \in Nat /\ Builtin!Shares(sales) + row.left = order.qty
\* Every target that was sold is marked, and was sold once.
LegsMarked ==
  /\ \A i \in DOMAIN sales : sales[i].leg # 0 => sales[i].leg \in row.sold
  /\ \A i, j \in DOMAIN sales : sales[i].leg # 0 /\ sales[i].leg = sales[j].leg => i = j
\* Capital protection has not counted more scans at its stop than there were in a row.
Protects == order.strategy = "Capital Protection Sell" /\ order.alias = ""
BreachesCounted ==
  /\ breaches \in 0..2
  /\ Protects => row.below <= breaches /\ (Builtin!Entry = 0 => row.below = 0)

StrategyIInv ==
  /\ order \in Settings /\ RowShape(row)
  /\ SalesCounted /\ LegsMarked /\ BreachesCounted

\* What a scan does to the row and the sales: nothing is sold and no mark is lost, or a sale
\* of what is left, of a target that was not sold before, is counted and marked.
Unsold == sales' = sales /\ row'.left = row.left /\ row.sold \subseteq row'.sold
SoldOne ==
  \E n \in 0..row.left : \E leg, price :
    /\ sales' = Append(sales, [leg |-> leg, qty |-> n, price |-> price])
    /\ row'.left = row.left - n
    /\ row.sold \cup ({leg} \ {0}) \subseteq row'.sold
    /\ leg \notin row.sold \/ leg = 0
Outcome == RowShape(row') /\ (Unsold \/ SoldOne)

\* A row that a strategy has tracked something in.
From(r) == RowShape(r) /\ r.left = row.left /\ row.sold \subseteq r.sold

LEMMA MinOfTwo ==
  ASSUME NEW a \in Int, NEW b \in Int
  PROVE  /\ Builtin!Min({a, b}) \in {a, b} /\ Builtin!Min({a, b}) <= a /\ Builtin!Min({a, b}) <= b
         /\ Builtin!Max({a, b}) \in {a, b} /\ Builtin!Max({a, b}) >= a /\ Builtin!Max({a, b}) >= b
<1>1. \E x \in {a, b} : \A y \in {a, b} : x <= y
  OBVIOUS
<1>2. \E x \in {a, b} : \A y \in {a, b} : x >= y
  OBVIOUS
<1>3. QED
  BY <1>1, <1>2 DEF Builtin!Min, Builtin!Max

LEMMA TrackOutcome ==
  ASSUME NEW q, NEW r, From(r), Builtin!Track(q, r)
  PROVE  Outcome
BY DEF From, RowShape, Builtin!Track, Outcome, Unsold

\* A leg that may be sold with a row r: none, or one that is new and that r or the sale marks.
NewLeg(leg, r) == leg = 0 \/ (leg \notin row.sold /\ (order.legs # <<>> \/ leg \in r.sold))

LEMMA SubmitOutcome ==
  ASSUME NEW price, RowShape(row), NEW qty \in 0..row.left, NEW r, From(r), NEW leg, NewLeg(leg, r),
         Builtin!Submit(price, qty, r, leg)
  PROVE  Outcome
<1> DEFINE n == Builtin!OrElse(qty, r.left)
           rest == IF r.left > n THEN r.left - n ELSE 0
           sold == IF order.legs # <<>> THEN r.sold \cup ({leg} \ {0}) ELSE r.sold
<1>1. n \in 0..row.left /\ rest = row.left - n /\ rest \in Nat
  BY DEF Builtin!OrElse, From, RowShape
<1>2. CASE Builtin!Posted(Builtin!Truncated(price), n, r, leg)
  <2>1. /\ sales' = Append(sales, [leg |-> leg, qty |-> n, price |-> Builtin!Truncated(price)])
        /\ row' = [r EXCEPT !.left = rest, !.sold = sold]
    BY <1>2 DEF Builtin!Posted
  <2> HIDE DEF n, rest
  <2>2. /\ RowShape(row') /\ row'.left = rest /\ row'.sold = sold
    BY <1>1, <2>1 DEF From, RowShape
  <2>3. row.sold \cup ({leg} \ {0}) \subseteq row'.sold
    BY <2>2 DEF From, NewLeg
  <2>4. leg \notin row.sold \/ leg = 0
    BY DEF NewLeg
  <2>5. SoldOne
    BY <1>1, <2>1, <2>2, <2>3, <2>4 DEF SoldOne
  <2>6. QED
    BY <2>2, <2>5 DEF Outcome
<1>3. CASE row' = r /\ UNCHANGED sales
  BY <1>3 DEF From, Outcome, Unsold
<1>4. QED
  BY <1>2, <1>3 DEF Builtin!Submit

LEMMA ExecuteOutcome ==
  ASSUME NEW q, NEW price, RowShape(row), NEW qty \in 0..row.left, NEW r, From(r), NEW leg, NewLeg(leg, r),
         Builtin!Execute(q, price, qty, r, leg)
  PROVE  Outcome
<1>1. From(row)
  BY DEF From
<1>2. QED
  BY <1>1, SubmitOutcome, TrackOutcome DEF Builtin!Execute

-----------------------------------------------------------------------------
(* The strategies without memory offer no more than what is left.          *)

LEMMA EmergencyOffers ==
  ASSUME RowShape(row), NEW q, q.bidQty \in Nat
  PROVE  \A x \in Builtin!EmergencyExit(q) : x.qty \in 0..row.left
<1> DEFINE least == Builtin!Min({row.left, q.bidQty})
           part == IF q.bidQty # 0 THEN least ELSE row.left
           sold == IF order.split /\ part < row.left THEN part ELSE row.left
<1>1. row.left \in Nat
  BY DEF RowShape
<1>2. least \in {row.left, q.bidQty} /\ least <= row.left
  <2> DEFINE a == row.left
             b == q.bidQty
  <2>1. a \in Int /\ b \in Int
    BY <1>1
  <2> HIDE DEF a, b
  <2>2. Builtin!Min({a, b}) \in {a, b} /\ Builtin!Min({a, b}) <= a
    BY <2>1, MinOfTwo
  <2>3. QED
    BY <2>2 DEF a, b
<1>3. part \in 0..row.left
  <2> HIDE DEF least
  <2> QED BY <1>1, <1>2
<1>4. sold \in 0..row.left
  <2> HIDE DEF part
  <2> QED BY <1>1, <1>3
<1>5. \A x \in Builtin!AtLtp(q, TRUE) : x.qty = 0
  BY DEF Builtin!AtLtp
<1> DEFINE one == [price |-> Builtin!Thousandths(q.bid), qty |-> sold]
<1>6. one.qty = sold
  OBVIOUS
<1>7. \/ Builtin!EmergencyExit(q) = {}
      \/ Builtin!EmergencyExit(q) = Builtin!AtLtp(q, TRUE)
      \/ Builtin!EmergencyExit(q) = {one}
  BY Zenon DEF Builtin!EmergencyExit
<1> HIDE DEF sold, one
<1>8. ASSUME NEW x \in Builtin!EmergencyExit(q) PROVE x.qty \in {0, sold}
  BY <1>5, <1>6, <1>7, Zenon
<1>9. QED
  BY <1>1, <1>4, <1>8

LEMMA OffersFit ==
  ASSUME RowShape(row), NEW q, q.bidQty \in Nat, NEW mem, NEW d, NEW strategy \in Builtin!Memoryless
  PROVE  \A x \in Builtin!Offers(strategy, q, mem, d) : x.qty \in 0..row.left
<1> DEFINE Free(offers) == \A x \in offers : x.qty = 0
<1>1. \A test : Free(Builtin!AtLtp(q, test)) /\ Free(Builtin!AtPrice(test))
  BY DEF Builtin!AtLtp, Builtin!AtPrice
<1> HIDE DEF Free
<1>2. /\ Free(Builtin!QualityPullbackRecoveryBuy(q, mem, d)) /\ Free(Builtin!ConfirmedBreakoutBuy(q, mem, d))
      /\ Free(Builtin!MeanReversionBounceBuy(q, mem, d)) /\ Free(Builtin!OrderBookStrengthBuy(q, mem))
  <2>1. Free(Builtin!QualityPullbackRecoveryBuy(q, mem, d))
    BY <1>1, Zenon DEF Builtin!QualityPullbackRecoveryBuy
  <2>2. Free(Builtin!ConfirmedBreakoutBuy(q, mem, d))
    BY <1>1, Zenon DEF Builtin!ConfirmedBreakoutBuy
  <2>3. Free(Builtin!MeanReversionBounceBuy(q, mem, d))
    BY <1>1, Zenon DEF Builtin!MeanReversionBounceBuy
  <2>4. Free(Builtin!OrderBookStrengthBuy(q, mem))
    BY <1>1, Zenon DEF Builtin!OrderBookStrengthBuy
  <2>5. QED
    BY <2>1, <2>2, <2>3, <2>4
<1>3. Free(Builtin!SmartPullbackBuy(q, mem, d))
  BY <1>1, Zenon DEF Builtin!SmartPullbackBuy
<1>4. Free(Builtin!TechnicalWeaknessSell(q, mem, d))
  BY DEF Free, Builtin!TechnicalWeaknessSell
<1>5. \A offers : Free(offers) => \A x \in offers : x.qty \in 0..row.left
  BY DEF Free, RowShape
<1>6. CASE strategy = "Emergency Exit by Top Buyer"
  BY <1>6, EmergencyOffers DEF Builtin!Offers
<1>7. CASE strategy # "Emergency Exit by Top Buyer"
  <2>1. Free(Builtin!Offers(strategy, q, mem, d))
    BY <1>1, <1>2, <1>3, <1>4, <1>7 DEF Builtin!Offers, Builtin!Memoryless
  <2>2. QED
    BY <2>1, <1>5
<1>8. QED
  BY <1>6, <1>7

LEMMA DecideOutcome ==
  ASSUME RowShape(row), NEW q, NEW offers, \A x \in offers : x.qty \in 0..row.left, Builtin!Decide(q, offers)
  PROVE  Outcome
<1>1. From(row) /\ NewLeg(0, row)
  BY DEF From, NewLeg
<1>2. CASE offers = {}
  BY <1>1, <1>2, TrackOutcome DEF Builtin!Decide
<1>3. CASE offers # {}
  <2> DEFINE x == CHOOSE x \in offers : TRUE
  <2>1. x \in offers
    BY <1>3
  <2>2. Builtin!Execute(q, x.price, x.qty, row, 0)
    BY <1>3 DEF Builtin!Decide
  <2> HIDE DEF x
  <2>3. QED
    BY <1>1, <2>1, <2>2, ExecuteOutcome
<1>4. QED
  BY <1>2, <1>3

LEMMA UnguardedOutcome ==
  ASSUME RowShape(row), NEW q, NEW offers, \A x \in offers : x.qty \in 0..row.left, Builtin!Unguarded(q, offers)
  PROVE  Outcome
<1>1. From(row) /\ NewLeg(0, row)
  BY DEF From, NewLeg
<1>2. CASE offers = {}
  BY <1>1, <1>2, TrackOutcome DEF Builtin!Unguarded
<1>3. CASE \E x \in offers : Builtin!Submit(x.price, x.qty, row, 0)
  BY <1>1, <1>3, SubmitOutcome
<1>4. QED
  BY <1>2, <1>3 DEF Builtin!Unguarded

-----------------------------------------------------------------------------
(* The strategies with memory.                                             *)

LEMMA TrackedFrom ==
  ASSUME RowShape(row), NEW q, NEW count \in Nat
  PROVE  /\ From(Builtin!Tracked(q, count)) /\ Builtin!Tracked(q, count).below = count
         /\ From(row)
<1>1. From(row)
  BY DEF From
<1>2. ASSUME NEW peak, NEW r, r = [row EXCEPT !.peak = peak, !.below = count]
      PROVE  From(r) /\ r.below = count
  BY <1>2 DEF From, RowShape
<1>3. Builtin!Tracked(q, count) = [row EXCEPT !.peak = Builtin!Peak(row, q), !.below = count]
  BY DEF Builtin!Tracked
<1>4. QED
  BY <1>1, <1>2, <1>3

LEMMA ProtectOutcome ==
  ASSUME RowShape(row), NEW q, Builtin!Protect(q)
  PROVE  Outcome
<1>1. row.below \in Nat /\ row.below + 1 \in Nat /\ 0 \in 0..row.left
  BY DEF RowShape
<1>2. /\ From(row) /\ From(Builtin!Tracked(q, 0)) /\ From(Builtin!Tracked(q, row.below))
      /\ From(Builtin!Tracked(q, row.below + 1))
  BY <1>1, TrackedFrom
<1>3. NewLeg(0, Builtin!Tracked(q, 0))
  BY DEF NewLeg
<1>4. \/ \E r \in {row, Builtin!Tracked(q, 0), Builtin!Tracked(q, row.below), Builtin!Tracked(q, row.below + 1)} : Builtin!Track(q, r)
      \/ Builtin!Execute(q, Builtin!SellLimit(q, order.slip, q.ltp), 0, Builtin!Tracked(q, 0), 0)
  BY Zenon DEF Builtin!Protect
<1>5. QED
  BY <1>1, <1>2, <1>3, <1>4, TrackOutcome, ExecuteOutcome

LEMMA StopOutcome ==
  ASSUME RowShape(row), NEW q
  PROVE  /\ Builtin!StopLimitSell(q) => Outcome
         /\ Builtin!FastStopLoss(q) => Outcome
<1> DEFINE counted == [row EXCEPT !.below = row.below + 1]
<1>1. From(row) /\ From(counted) /\ NewLeg(0, row) /\ NewLeg(0, counted) /\ 0 \in 0..row.left
  BY DEF From, RowShape, NewLeg
<1>2. ASSUME Builtin!StopLimitSell(q) PROVE Outcome
  <2>1. \/ Builtin!Execute(q, Builtin!Thousandths(Builtin!OrElse(order.limit, order.price)), 0, row, 0)
        \/ Builtin!Protect(q)
    BY <1>2, Zenon DEF Builtin!StopLimitSell
  <2>2. QED
    BY <1>1, <2>1, ExecuteOutcome, ProtectOutcome
<1>3. ASSUME Builtin!FastStopLoss(q) PROVE Outcome
  <2>1. \/ Builtin!Execute(q, Builtin!SellLimit(q, order.slip, order.stop), 0, counted, 0)
        \/ Builtin!Track(q, counted)
        \/ Builtin!Protect(q)
    BY <1>3, Zenon DEF Builtin!FastStopLoss
  <2> HIDE DEF counted
  <2>2. QED
    BY <1>1, <2>1, ExecuteOutcome, TrackOutcome, ProtectOutcome
<1>4. QED
  BY <1>2, <1>3

\* The first target that is reached is one that is, and its part is of what is left.
LEMMA FirstReached ==
  ASSUME RowShape(row), order \in Settings, NEW q, Builtin!Reached(q) # {}
  PROVE  LET i == Builtin!Min(Builtin!Reached(q)) IN
         i \in Nat /\ i \notin row.sold /\ Builtin!LegQty(i) \in 0..row.left
<1> DEFINE i == Builtin!Min(Builtin!Reached(q))
           leg == Builtin!Legs[i]
           share == (order.qty * leg.percent) \div 100
           part == Builtin!Max({1, share})
<1>1. /\ order.qty \in Nat /\ order.legs \in Seq([target : Nat, percent : Nat])
      /\ row.left \in Nat
  BY StrategyConstants DEF RowShape
<1>2. DOMAIN Builtin!Legs \subseteq Nat /\ \A k \in DOMAIN Builtin!Legs : Builtin!Legs[k].percent \in Nat
  <2>1. CASE order.legs # <<>>
    <3> DEFINE legs == order.legs
               Leg == [target : Nat, percent : Nat]
    <3>1. Builtin!Legs = legs /\ legs \in Seq(Leg)
      BY <1>1, <2>1 DEF Builtin!Legs
    <3> HIDE DEF legs, Leg
    <3>2. DOMAIN legs = 1..Len(legs) /\ Len(legs) \in Nat
      BY <3>1
    <3>3. \A k \in DOMAIN legs : legs[k] \in Leg
      BY <3>1, <3>2
    <3>4. QED
      BY <3>1, <3>2, <3>3 DEF Leg
  <2>2. CASE order.legs = <<>>
    <3> DEFINE first == [target |-> IF Builtin!OrElse(order.book, order.profit) # 0
                                    THEN Builtin!Thousandths(Builtin!OrElse(order.book, order.profit))
                                    ELSE Builtin!More(Builtin!Entry, 40), percent |-> 30]
               second == [target |-> Builtin!More(Builtin!Entry, 80), percent |-> 30]
    <3>1. first.percent = 30 /\ second.percent = 30
      OBVIOUS
    <3>2. Builtin!Legs = <<first, second>>
      BY <2>2 DEF Builtin!Legs
    <3> HIDE DEF first, second
    <3>3. QED
      BY <3>1, <3>2
  <2>3. QED
    BY <2>1, <2>2
<1>3. Builtin!Reached(q) \subseteq DOMAIN Builtin!Legs /\ Builtin!Reached(q) \cap row.sold = {}
  BY DEF Builtin!Reached
<1>4. i \in Builtin!Reached(q)
  <2>1. \E m \in Builtin!Reached(q) : \A n \in Builtin!Reached(q) : m <= n
    <3>1. Builtin!Reached(q) \subseteq Nat
      BY <1>2, <1>3
    <3>2. QED
      BY <3>1, LeastExists
  <2>2. QED
    BY <2>1 DEF Builtin!Min
<1>5. leg.percent \in Nat
  BY <1>2, <1>3, <1>4
<1>6. share \in Nat
  <2> HIDE DEF leg
  <2>1. order.qty * leg.percent \in Nat
    BY <1>1, <1>5
  <2> DEFINE product == order.qty * leg.percent
  <2>2. product \in Nat
    BY <2>1
  <2> HIDE DEF product
  <2>3. product \div 100 \in Nat
    BY <2>2
  <2>4. QED
    BY <2>3 DEF product
<1>7. part \in Nat
  <2> HIDE DEF share
  <2>1. Builtin!Max({1, share}) \in {1, share}
    BY <1>6, MinOfTwo
  <2>2. QED
    BY <1>6, <2>1
<1>8. Builtin!LegQty(i) \in 0..row.left
  <2> DEFINE rest == row.left
  <2>1. Builtin!LegQty(i) = Builtin!Min({part, rest})
    BY DEF Builtin!LegQty
  <2>2. rest \in Nat
    BY <1>1
  <2> HIDE DEF part, rest
  <2>3. Builtin!Min({part, rest}) \in {part, rest} /\ Builtin!Min({part, rest}) <= rest
    BY <1>7, <2>2, MinOfTwo
  <2>4. Builtin!Min({part, rest}) \in 0..rest
    BY <1>7, <2>2, <2>3
  <2>5. QED
    BY <2>1, <2>4 DEF rest
<1>9. QED
  BY <1>2, <1>3, <1>4, <1>8

LEMMA LadderOutcome ==
  ASSUME RowShape(row), order \in Settings, NEW q
  PROVE  /\ Builtin!Ladder(q) => Outcome
         /\ Builtin!SmartProfit(q) => Outcome
<1> DEFINE i == Builtin!Min(Builtin!Reached(q))
           r == IF order.legs = <<>> THEN [row EXCEPT !.sold = row.sold \cup {i}] ELSE row
           high == Builtin!Max({row.peak, q.ltp})
           top == Builtin!Max({Builtin!OrElse(row.peak, q.ltp), q.ltp})
<1>1. /\ From(row) /\ NewLeg(0, row) /\ 0 \in 0..row.left
      /\ \A peak : From([row EXCEPT !.peak = peak])
      /\ \A peak : From([row EXCEPT !.reached = TRUE, !.peak = peak])
  <2>1. From(row) /\ NewLeg(0, row) /\ 0 \in 0..row.left
    BY DEF From, RowShape, NewLeg
  <2>2. ASSUME NEW peak, NEW u, NEW v, u = [row EXCEPT !.peak = peak], v = [row EXCEPT !.reached = TRUE, !.peak = peak]
        PROVE  From(u) /\ From(v)
    BY <2>2 DEF From, RowShape
  <2>3. QED
    BY <2>1, <2>2
<1>2. From(r)
  BY DEF From, RowShape
<1>3. ASSUME Builtin!Ladder(q) PROVE Outcome
  <2>1. CASE Builtin!Reached(q) # {}
    <3>1. i \notin row.sold /\ Builtin!LegQty(i) \in 0..row.left
      BY <2>1, FirstReached
    <3>2. order.legs = <<>> => i \in r.sold
      BY DEF RowShape
    <3>3. NewLeg(i, r)
      BY <3>1, <3>2 DEF NewLeg
    <3>4. \/ Builtin!Track(q, row)
          \/ Builtin!Execute(q, Builtin!SellLimit(q, 10, 0), Builtin!LegQty(i), r, i)
      BY <1>3, <2>1, Zenon DEF Builtin!Ladder
    <3> HIDE DEF i, r
    <3>5. QED
      BY <1>1, <1>2, <3>1, <3>3, <3>4, TrackOutcome, ExecuteOutcome
  <2>2. CASE Builtin!Reached(q) = {}
    <3>1. Builtin!Track(q, row) \/ Builtin!Track(q, [row EXCEPT !.peak = high])
      BY <1>3, <2>2, Zenon DEF Builtin!Ladder
    <3>2. QED
      BY <1>1, <3>1, TrackOutcome
  <2>3. QED
    BY <2>1, <2>2
<1>4. ASSUME Builtin!SmartProfit(q) PROVE Outcome
  <2>1. \/ Builtin!Execute(q, Builtin!SellLimit(q, 10, 0), 0, row, 0)
        \/ Builtin!Track(q, row)
        \/ Builtin!Track(q, [row EXCEPT !.reached = TRUE, !.peak = q.ltp])
        \/ Builtin!Track(q, [row EXCEPT !.peak = top])
    BY <1>4, Zenon DEF Builtin!SmartProfit
  <2>2. QED
    BY <1>1, <2>1, TrackOutcome, ExecuteOutcome
<1>5. QED
  BY <1>3, <1>4

LEMMA RunnerOutcome ==
  ASSUME RowShape(row), NEW q, Builtin!Runner(q)
  PROVE  Outcome
<1>1. /\ From(row) /\ NewLeg(0, row) /\ row.left \in 0..row.left
      /\ From([row EXCEPT !.peak = Builtin!RunnerHigh(q)])
  BY DEF From, RowShape, NewLeg
<1>2. \/ Builtin!Track(q, row)
      \/ Builtin!Execute(q, Builtin!SellLimit(q, 10, 0), row.left, row, 0)
      \/ Builtin!Track(q, [row EXCEPT !.peak = Builtin!RunnerHigh(q)])
  BY Zenon DEF Builtin!Runner
<1>3. QED
  BY <1>1, <1>2, TrackOutcome, ExecuteOutcome

LEMMA TimeBasedOutcome ==
  ASSUME RowShape(row), order \in Settings, NEW q, q.bidQty \in Nat, NEW mem, NEW d
  PROVE  /\ order.strategy = "Time-Based Buy" /\ Builtin!TimeBasedBuy(q, mem, d) => Outcome
         /\ Builtin!TimeBasedExit(q) => Outcome
<1>1. From(row)
  BY DEF From
<1>2. ASSUME NEW ended, Builtin!Ends(ended) PROVE Outcome
  BY <1>1, <1>2 DEF Builtin!Ends, From, Outcome, Unsold
<1>3. ASSUME order.strategy = "Time-Based Buy", Builtin!TimeBasedBuy(q, mem, d) PROVE Outcome
  <2>1. \A x \in Builtin!Offers(order.wrapped, q, mem, d) : x.qty \in 0..row.left
    <3>1. order.wrapped \in Builtin!Memoryless
      BY <1>3, StrategyConstants, Zenon
    <3>2. QED
      BY <3>1, OffersFit
  <2>2. (\E ended : Builtin!Ends(ended)) \/ Builtin!Unguarded(q, Builtin!Offers(order.wrapped, q, mem, d))
    BY <1>3, Zenon DEF Builtin!TimeBasedBuy
  <2>3. QED
    BY <1>2, <2>1, <2>2, UnguardedOutcome
<1>4. ASSUME Builtin!TimeBasedExit(q) PROVE Outcome
  <2>1. \/ Builtin!Track(q, row)
        \/ Builtin!Unguarded(q, Builtin!EmergencyExit(q))
        \/ \E ended : Builtin!Ends(ended)
    BY <1>4, Zenon DEF Builtin!TimeBasedExit
  <2>2. QED
    BY <1>1, <1>2, <2>1, EmergencyOffers, TrackOutcome, UnguardedOutcome
<1>5. QED
  BY <1>3, <1>4, Zenon

-----------------------------------------------------------------------------
(* The count of scans at the stop.                                         *)

LEMMA TrackBelow ==
  ASSUME NEW q, NEW r, RowShape(r), Builtin!Track(q, r)
  PROVE  row'.below = r.below /\ sales' = sales
BY DEF Builtin!Track, RowShape

LEMMA ExecuteBelow ==
  ASSUME NEW q, NEW price, NEW qty, RowShape(row), NEW r, RowShape(r), NEW leg, Builtin!Execute(q, price, qty, r, leg)
  PROVE  row'.below \in {row.below, r.below}
<1>1. CASE Builtin!Track(q, row)
  BY <1>1, TrackBelow
<1>2. CASE Builtin!Submit(price, qty, r, leg)
  <2> DEFINE n == Builtin!OrElse(qty, r.left)
             rest == IF r.left > n THEN r.left - n ELSE 0
             sold == IF order.legs # <<>> THEN r.sold \cup ({leg} \ {0}) ELSE r.sold
  <2>1. row' = r \/ row' = [r EXCEPT !.left = rest, !.sold = sold]
    BY <1>2, Zenon DEF Builtin!Submit, Builtin!Posted
  <2> HIDE DEF n, rest, sold
  <2>2. QED
    BY <2>1 DEF RowShape
<1>3. QED
  BY <1>1, <1>2 DEF Builtin!Execute

\* A scan of capital protection keeps its count within the scans in a row, and sells only
\* when there were two.
LEMMA ProtectBreaches ==
  ASSUME RowShape(row), breaches \in 0..2, row.below <= breaches, Builtin!Entry = 0 => row.below = 0,
         NEW q, Builtin!Protect(q),
         breaches' = IF q.age = "stale" THEN breaches ELSE IF Builtin!AtStop(q) THEN Builtin!Min({2, breaches + 1}) ELSE 0
  PROVE  /\ breaches' \in 0..2 /\ row'.below <= breaches'
         /\ Builtin!Entry = 0 => row'.below = 0
         /\ sales' # sales => breaches' = 2
<1> DEFINE least == Builtin!Min({2, breaches + 1})
           None == Builtin!Tracked(q, 0)
           Same == Builtin!Tracked(q, row.below)
           Next1 == Builtin!Tracked(q, row.below + 1)
           stale == q.age = "stale"
           stop == Builtin!AtStop(q)
           none == Builtin!Entry = 0
           above == Builtin!NewPeak(q) \/ ~stop \/ Builtin!BidDefendsStop(q)
           holds == Builtin!BidHolds(q)
           Sold == Builtin!Execute(q, Builtin!SellLimit(q, order.slip, q.ltp), 0, None, 0)
<1>1. row.below \in Nat /\ row.below + 1 \in Nat
  BY DEF RowShape
<1>2. /\ RowShape(None) /\ None.below = 0 /\ RowShape(Same) /\ Same.below = row.below
      /\ RowShape(Next1) /\ Next1.below = row.below + 1
  BY <1>1, TrackedFrom DEF From
<1>3. least \in {2, breaches + 1} /\ least <= 2 /\ least <= breaches + 1
  <2> DEFINE two == 2
             more == breaches + 1
  <2>1. two \in Int /\ more \in Int
    OBVIOUS
  <2> HIDE DEF two, more
  <2>2. /\ Builtin!Min({two, more}) \in {two, more}
        /\ Builtin!Min({two, more}) <= two /\ Builtin!Min({two, more}) <= more
    BY <2>1, MinOfTwo
  <2>3. QED
    BY <2>2 DEF two, more
<1>4. /\ none \/ stale => Builtin!Track(q, row)
      /\ ~none /\ ~stale /\ above => Builtin!Track(q, None)
      /\ ~none /\ ~stale /\ ~above /\ holds => Builtin!Track(q, Same)
      /\ ~none /\ ~stale /\ ~above /\ ~holds /\ row.below + 1 < 2 => Builtin!Track(q, Next1)
      /\ ~none /\ ~stale /\ ~above /\ ~holds /\ ~(row.below + 1 < 2) => Sold
  BY Zenon DEF Builtin!Protect
<1>5. breaches' = IF stale THEN breaches ELSE IF stop THEN least ELSE 0
  OBVIOUS
<1>6. ~above => stop
  OBVIOUS
<1>7. /\ Builtin!Track(q, row) => row'.below = row.below /\ sales' = sales
      /\ Builtin!Track(q, None) => row'.below = 0 /\ sales' = sales
      /\ Builtin!Track(q, Same) => row'.below = row.below /\ sales' = sales
      /\ Builtin!Track(q, Next1) => row'.below = row.below + 1 /\ sales' = sales
      /\ Sold => row'.below \in {row.below, 0}
  BY <1>2, TrackBelow, ExecuteBelow
<1> HIDE DEF least, None, Same, Next1, stale, stop, none, above, holds, Sold
<1>8. none => row.below = 0
  BY DEF none
<1>9. /\ breaches' \in 0..2 /\ row'.below <= breaches'
      /\ none => row'.below = 0
      /\ sales' # sales => breaches' = 2
  <2>1. CASE none \/ stale
    BY <2>1, <1>1, <1>3, <1>4, <1>5, <1>7, <1>8
  <2>2. CASE ~none /\ ~stale /\ above
    BY <2>2, <1>1, <1>3, <1>4, <1>5, <1>7
  <2>3. CASE ~none /\ ~stale /\ ~above /\ holds
    BY <2>3, <1>1, <1>3, <1>4, <1>5, <1>6, <1>7
  <2>4. CASE ~none /\ ~stale /\ ~above /\ ~holds /\ row.below + 1 < 2
    BY <2>4, <1>1, <1>3, <1>4, <1>5, <1>6, <1>7
  <2>5. CASE ~none /\ ~stale /\ ~above /\ ~holds /\ ~(row.below + 1 < 2)
    BY <2>5, <1>1, <1>3, <1>4, <1>5, <1>6, <1>7
  <2>6. QED
    BY <2>1, <2>2, <2>3, <2>4, <2>5
<1>10. QED
  BY <1>9 DEF none

-----------------------------------------------------------------------------
(* A scan of any strategy.                                                 *)

LEMMA GuardedOutcome ==
  ASSUME RowShape(row), order \in Settings, NEW q \in Quotes, NEW mem, NEW d, Builtin!Guarded(q, mem, d)
  PROVE  Outcome
<1>1. q.bidQty \in Nat
  BY StrategyConstants, Zenon
<1>2. CASE order.strategy \in Builtin!Memoryless /\ Builtin!Decide(q, Builtin!Offers(order.strategy, q, mem, d))
  BY <1>1, <1>2, OffersFit, DecideOutcome
<1>3. CASE Builtin!StopLimitSell(q) \/ Builtin!FastStopLoss(q) \/ Builtin!Protect(q)
  BY <1>3, StopOutcome, ProtectOutcome
<1>4. CASE Builtin!Ladder(q) \/ Builtin!SmartProfit(q)
  BY <1>4, LadderOutcome
<1>5. CASE Builtin!Runner(q)
  BY <1>5, RunnerOutcome
<1>6. CASE order.strategy = "Time-Based Buy" /\ Builtin!TimeBasedBuy(q, mem, d)
  BY <1>1, <1>6, TimeBasedOutcome, Zenon
<1>7. CASE Builtin!TimeBasedExit(q)
  BY <1>1, <1>7, TimeBasedOutcome, Zenon
<1>8. QED
  BY <1>2, <1>3, <1>4, <1>5, <1>6, <1>7, Zenon DEF Builtin!Guarded

LEMMA GuardedProtects ==
  ASSUME Protects, NEW q, NEW mem, NEW d, Builtin!Guarded(q, mem, d)
  PROVE  Builtin!Protect(q)
BY Zenon DEF Protects, Builtin!Guarded, Builtin!Memoryless

LEMMA OutcomeKeeps ==
  ASSUME RowShape(row), SalesCounted, LegsMarked, Outcome, order' = order
  PROVE  RowShape(row') /\ SalesCounted' /\ LegsMarked'
<1>1. RowShape(row')
  BY DEF Outcome
<1>2. CASE Unsold
  BY <1>1, <1>2 DEF Unsold, SalesCounted, LegsMarked
<1>3. CASE SoldOne
  <2>1. PICK n \in 0..row.left : \E leg, price :
          /\ sales' = Append(sales, [leg |-> leg, qty |-> n, price |-> price])
          /\ row'.left = row.left - n
          /\ row.sold \cup ({leg} \ {0}) \subseteq row'.sold
          /\ leg \notin row.sold \/ leg = 0
    BY <1>3 DEF SoldOne
  <2>2. PICK leg, price :
          /\ sales' = Append(sales, [leg |-> leg, qty |-> n, price |-> price])
          /\ row'.left = row.left - n
          /\ row.sold \cup ({leg} \ {0}) \subseteq row'.sold
          /\ leg \notin row.sold \/ leg = 0
    BY <2>1
  <2> DEFINE x == [leg |-> leg, qty |-> n, price |-> price]
  <2>3. x.leg = leg /\ x.qty = n
    OBVIOUS
  <2>4. PICK S : sales \in Seq(S)
    BY DEF SalesCounted
  <2> DEFINE T == S \cup {x}
  <2> HIDE DEF x
  <2>5. sales \in Seq(T) /\ x \in T
    BY <2>4
  <2> HIDE DEF T
  <2>6. sales' = Append(sales, x)
    BY <2>2 DEF x
  <2>7. sales' \in Seq(T)
    BY <2>5, <2>6
  <2>8. Builtin!Shares(sales') = Builtin!Shares(sales) + n
    BY <2>3, <2>5, <2>6, SharesOfAppend
  <2>9. SalesCounted'
    <3> DEFINE before == Builtin!Shares(sales)
               sum == Builtin!Shares(sales')
    <3>1. before + row.left = order.qty /\ sum = before + n /\ row'.left = row.left - n
      BY <2>2, <2>8 DEF SalesCounted
    <3>2. row.left \in Nat /\ n \in Nat
      BY DEF RowShape
    <3>3. before \in Nat
      BY DEF SalesCounted
    <3> HIDE DEF before, sum
    <3>4. sum \in Nat /\ sum + row'.left = order.qty
      BY <3>1, <3>2, <3>3
    <3>5. QED
      BY <2>7, <3>4 DEF SalesCounted, sum
  <2>10. LegsMarked'
    <3>1. /\ DOMAIN sales = 1..Len(sales) /\ Len(sales) \in Nat
          /\ DOMAIN sales' = 1..(Len(sales) + 1) /\ sales'[Len(sales) + 1] = x
          /\ \A i \in DOMAIN sales : sales'[i] = sales[i]
      BY <2>5, <2>6
    <3>2. QED
      BY <2>2, <2>3, <3>1 DEF LegsMarked
  <2>11. QED
    BY <1>1, <2>9, <2>10
<1>4. QED
  BY <1>2, <1>3 DEF Outcome

-----------------------------------------------------------------------------
(* The inductive invariant of a built-in strategy, and what it gives.      *)

LEMMA StrategyInductiveInit == Builtin!Init => StrategyIInv
<1> SUFFICES ASSUME Builtin!Init PROVE StrategyIInv
  OBVIOUS
<1> DEFINE first == [peak |-> 0, below |-> 0, reached |-> FALSE, sold |-> {}, left |-> order.qty, last |-> 0]
<1>1. order \in Settings /\ row = first /\ sales = <<>> /\ breaches = 0
  BY Zenon DEF Builtin!Init
<1>2. order.qty \in Nat
  BY <1>1, StrategyConstants, Zenon
<1>3. RowShape(row) /\ row.left = order.qty /\ row.below = 0
  BY <1>1, <1>2 DEF RowShape
<1>4. SalesCounted
  <2>1. sales \in Seq({})
    BY <1>1
  <2>2. Builtin!Shares(sales) = 0
    BY <1>1, SharesOfNone
  <2>3. QED
    BY <1>2, <1>3, <2>1, <2>2 DEF SalesCounted
<1>5. LegsMarked
  BY <1>1 DEF LegsMarked
<1>6. BreachesCounted
  BY <1>1, <1>3 DEF BreachesCounted
<1>7. QED
  BY <1>1, <1>3, <1>4, <1>5, <1>6 DEF StrategyIInv

\* Capital protection sells only on a second scan in a row at its stop.
TwiceAtStop == Builtin!Sells("Capital Protection Sell") /\ order.alias = "" => breaches' = 2

LEMMA ScanStep ==
  ASSUME StrategyIInv, NEW q \in Quotes, NEW d, Builtin!Scan(q, d)
  PROVE  StrategyIInv' /\ TwiceAtStop
<1> DEFINE guarding == Builtin!Guarded(q, Builtin!Remembered(q), d)
<1>1. /\ guarding /\ order' = order
      /\ breaches' = IF ~Builtin!Protecting(q) THEN breaches
                     ELSE IF Builtin!AtStop(q) THEN Builtin!Min({2, breaches + 1}) ELSE 0
  BY Zenon DEF Builtin!Scan
<1>2. RowShape(row) /\ order \in Settings /\ SalesCounted /\ LegsMarked
  BY DEF StrategyIInv
<1>3. RowShape(row') /\ SalesCounted' /\ LegsMarked'
  <2>1. Outcome
    BY <1>1, <1>2, GuardedOutcome
  <2>2. QED
    BY <1>1, <1>2, <2>1, OutcomeKeeps
<1>4. Protects' = Protects /\ Builtin!Entry' = Builtin!Entry
  BY <1>1 DEF Protects, Builtin!Entry
<1>5. CASE Protects
  <2>1. Builtin!Protect(q)
    BY <1>1, <1>5, GuardedProtects
  <2>2. Builtin!Protecting(q) <=> q.age # "stale"
    BY <1>5, Zenon DEF Protects, Builtin!Protecting
  <2>3. breaches' = IF q.age = "stale" THEN breaches ELSE IF Builtin!AtStop(q) THEN Builtin!Min({2, breaches + 1}) ELSE 0
    BY <1>1, <2>2
  <2>4. breaches \in 0..2 /\ row.below <= breaches /\ (Builtin!Entry = 0 => row.below = 0)
    BY <1>5 DEF StrategyIInv, BreachesCounted
  <2>5. /\ breaches' \in 0..2 /\ row'.below <= breaches'
        /\ Builtin!Entry = 0 => row'.below = 0
        /\ sales' # sales => breaches' = 2
    BY <1>2, <2>1, <2>3, <2>4, ProtectBreaches
  <2>6. BreachesCounted'
    BY <1>4, <2>5 DEF BreachesCounted
  <2>7. TwiceAtStop
    BY <2>5, Zenon DEF TwiceAtStop, Builtin!Sells
  <2>8. QED
    BY <1>1, <1>2, <1>3, <2>6, <2>7 DEF StrategyIInv
<1>6. CASE ~Protects
  <2>1. breaches' = breaches
    BY <1>1, <1>6, Zenon DEF Protects, Builtin!Protecting
  <2>2. BreachesCounted'
    BY <1>4, <1>6, <2>1 DEF StrategyIInv, BreachesCounted
  <2>3. TwiceAtStop
    BY <1>6, Zenon DEF Protects, TwiceAtStop, Builtin!Sells
  <2>4. QED
    BY <1>1, <1>2, <1>3, <2>2, <2>3 DEF StrategyIInv
<1>7. QED
  BY <1>5, <1>6

LEMMA StrategyInductiveStep == StrategyIInv /\ [Builtin!Next]_(Builtin!vars) => StrategyIInv' /\ (Builtin!Next => TwiceAtStop)
<1> SUFFICES ASSUME StrategyIInv, [Builtin!Next]_(Builtin!vars) PROVE StrategyIInv' /\ (Builtin!Next => TwiceAtStop)
  OBVIOUS
<1>1. ASSUME NEW q \in Quotes, NEW d \in Builtin!Details, Builtin!Scan(q, d) PROVE StrategyIInv' /\ TwiceAtStop
  BY <1>1, ScanStep
<1>2. ASSUME UNCHANGED <<order, row, sales, breaches>> PROVE StrategyIInv' /\ TwiceAtStop
  <2>1. TwiceAtStop
    BY <1>2, Zenon DEF TwiceAtStop, Builtin!Sells
  <2>2. StrategyIInv'
    BY <1>2 DEF StrategyIInv, RowShape, SalesCounted, LegsMarked, BreachesCounted, Protects, Builtin!Entry
  <2>3. QED
    BY <2>1, <2>2
<1>3. CASE Builtin!TimePasses
  BY <1>2, <1>3, Zenon DEF Builtin!TimePasses
<1>4. CASE UNCHANGED Builtin!vars
  BY <1>2, <1>4 DEF Builtin!vars
<1>5. QED
  BY <1>1, <1>3, <1>4, Zenon DEF Builtin!Next

\* The inductive invariant of a built-in strategy.
THEOREM StrategyInvariant == Builtin!Spec => []StrategyIInv
<1>1. StrategyIInv /\ [Builtin!Next]_(Builtin!vars) => StrategyIInv'
  BY StrategyInductiveStep
<1>2. QED
  BY <1>1, StrategyInductiveInit, PTL DEF Builtin!Spec

\* Over all its sales an order gives away no more than its quantity and sells no target of a
\* profit ladder twice (evaluate_profit_ladder_sell, monitor_order_task_func).
THEOREM SalesEver == Builtin!Spec => []SalesWithinQuantity
<1>1. StrategyIInv => SalesWithinQuantity
  <2>1. StrategyIInv => Builtin!Shares(sales) \in Nat /\ row.left \in Nat /\ Builtin!Shares(sales) + row.left = order.qty
    BY DEF StrategyIInv, SalesCounted, RowShape
  <2>2. StrategyIInv => Builtin!Shares(sales) <= order.qty
    <3> DEFINE sum == Builtin!Shares(sales)
    <3> HIDE DEF sum
    <3>1. sum \in Nat /\ row.left \in Nat /\ sum + row.left = order.qty => sum <= order.qty
      OBVIOUS
    <3>2. QED
      BY <2>1, <3>1 DEF sum
  <2>3. QED
    BY <2>2 DEF StrategyIInv, LegsMarked, SalesWithinQuantity, Builtin!SalesWithinQuantity
<1>2. QED
  BY <1>1, StrategyInvariant, PTL

\* Capital protection sells only after two usable scans in a row at or below its effective
\* stop (evaluate_capital_protection_core), whatever was refused or stale before.
THEOREM ConfirmedBreachEver == Builtin!Spec => ConfirmedBreach
<1>1. StrategyIInv /\ [Builtin!Next]_(Builtin!vars) => [TwiceAtStop]_(Builtin!vars)
  BY StrategyInductiveStep
<1>2. Builtin!Spec => [][TwiceAtStop]_(Builtin!vars)
  BY <1>1, StrategyInvariant, PTL DEF Builtin!Spec
<1>3. QED
  BY <1>2 DEF TwiceAtStop, ConfirmedBreach, Builtin!ConfirmedBreach

-----------------------------------------------------------------------------
(* Built-in strategies: types.                                             *)

Statuses == {"Active", "Executed", "Blocked by slippage", "Failed", "Executing", "Expired"}
SaleType == [leg : Nat, qty : Nat, price : Nat]
\* A quote and an order whose prices are numbers.
QuoteTypes(q) == q.ltp \in Nat /\ q.bid \in Nat /\ q.bidQty \in Nat
OrderTypes ==
  /\ order.qty \in Nat /\ order.price \in Nat /\ order.avg \in Nat /\ order.stop \in Nat
  /\ order.limit \in Nat /\ order.slip \in Nat
ScannedTypes == row \in Builtin!Row /\ outcome \in Statuses
\* What a scan writes has its type, and what it sells is one sale.
Typed ==
  /\ ScannedTypes'
  /\ sales' = sales \/ \E x \in SaleType : sales' = Append(sales, x)

LEMMA TrackTypes ==
  ASSUME ScannedTypes, NEW q, QuoteTypes(q), NEW r \in Builtin!Row, Builtin!Track(q, r)
  PROVE  Typed
<1>1. row' \in Builtin!Row
  BY DEF Builtin!Track, Builtin!Row, QuoteTypes
<1>2. QED
  BY <1>1 DEF Builtin!Track, Typed, ScannedTypes

LEMMA SubmitTypes ==
  ASSUME ScannedTypes, NEW price \in Nat, NEW qty \in Nat, NEW r \in Builtin!Row, NEW leg \in Nat,
         Builtin!Submit(price, qty, r, leg)
  PROVE  Typed
<1> DEFINE n == Builtin!OrElse(qty, r.left)
           rest == IF r.left > n THEN r.left - n ELSE 0
           sold == IF order.legs # <<>> THEN r.sold \cup ({leg} \ {0}) ELSE r.sold
           cut == Builtin!Truncated(price)
<1>1. n \in Nat /\ rest \in Nat /\ sold \in SUBSET Nat /\ cut \in Nat
  BY DEF Builtin!OrElse, Builtin!Row, Builtin!Truncated
<1>2. CASE Builtin!Posted(cut, n, r, leg)
  <2>1. /\ sales' = Append(sales, [leg |-> leg, qty |-> n, price |-> cut])
        /\ row' = [r EXCEPT !.left = rest, !.sold = sold]
    BY <1>2 DEF Builtin!Posted
  <2>2. outcome' \in Statuses
    BY <1>2, Zenon DEF Builtin!Posted, Statuses
  <2> HIDE DEF n, rest, sold, cut
  <2>3. row' \in Builtin!Row
    BY <1>1, <2>1 DEF Builtin!Row
  <2>4. [leg |-> leg, qty |-> n, price |-> cut] \in SaleType
    BY <1>1 DEF SaleType
  <2>5. QED
    BY <2>1, <2>2, <2>3, <2>4, Zenon DEF Typed, ScannedTypes
<1>3. CASE outcome' \in {"Failed", "Executing", "Active"} /\ row' = r /\ UNCHANGED sales
  <2>1. outcome' \in Statuses
    BY <1>3, Zenon DEF Statuses
  <2>2. QED
    BY <1>3, <2>1, Zenon DEF Typed, ScannedTypes
<1>4. QED
  BY <1>2, <1>3, Zenon DEF Builtin!Submit

LEMMA ExecuteTypes ==
  ASSUME ScannedTypes, NEW q, QuoteTypes(q), NEW price \in Nat, NEW qty \in Nat, NEW r \in Builtin!Row, NEW leg \in Nat,
         Builtin!Execute(q, price, qty, r, leg)
  PROVE  Typed
<1>1. row \in Builtin!Row
  BY DEF ScannedTypes
<1>2. Builtin!Submit(price, qty, r, leg) \/ Builtin!Track(q, row)
  BY Zenon DEF Builtin!Execute
<1>3. QED
  BY <1>1, <1>2, SubmitTypes, TrackTypes

LEMMA EntryType == ASSUME OrderTypes PROVE Builtin!Entry \in Nat
BY DEF OrderTypes, Builtin!Entry, Builtin!OrElse

\* A limit is a number even where the percentage taken off its reference is more than all of it.
LEMMA SellLimitType ==
  ASSUME NEW q, QuoteTypes(q), NEW slip \in Nat, NEW reference \in Nat
  PROVE  Builtin!SellLimit(q, slip, reference) \in Nat
<1> DEFINE ltp == 1000 * q.ltp
           bid == 1000 * q.bid
           best == IF q.bid # 0 THEN bid ELSE ltp
           above == q.ltp * (1000 + slip)
           capped == Builtin!Min({best, above})
           below == reference * (1000 - slip)
           most == Builtin!Max({capped, below})
           raised == IF reference = 0 THEN capped ELSE most
<1>1. ltp \in Nat /\ bid \in Nat /\ best \in Nat
  BY DEF QuoteTypes
<1>2. above \in Nat /\ below \in Int
  <2>1. q.ltp \in Nat /\ 1000 + slip \in Nat /\ 1000 - slip \in Int
    BY DEF QuoteTypes
  <2> DEFINE p == q.ltp
             more == 1000 + slip
             less == 1000 - slip
  <2> HIDE DEF p, more, less
  <2>2. \A a, b \in Nat : a * b \in Nat
    OBVIOUS
  <2>3. \A a, b \in Int : a * b \in Int
    OBVIOUS
  <2>4. p * more \in Nat
    BY <2>1, <2>2 DEF p, more
  <2>5. reference * less \in Int
    BY <2>1, <2>3 DEF less
  <2>6. QED
    BY <2>4, <2>5 DEF p, more, less
<1>3. Builtin!SellLimit(q, slip, reference) = Builtin!Min({raised, ltp})
  BY DEF Builtin!SellLimit, Builtin!Thousandths, Builtin!More, Builtin!Less
<1> HIDE DEF ltp, bid, best, above, below
<1>4. capped \in {best, above}
  <2>1. best \in Int /\ above \in Int
    BY <1>1, <1>2
  <2>2. QED
    BY <2>1, MinOfTwo
<1>5. capped \in Nat
  BY <1>1, <1>2, <1>4
<1> HIDE DEF capped
<1>6. most \in {capped, below} /\ most >= capped
  <2>1. capped \in Int /\ below \in Int
    BY <1>2, <1>5
  <2>2. QED
    BY <2>1, MinOfTwo
<1>7. raised \in Nat
  BY <1>2, <1>5, <1>6
<1> HIDE DEF raised
<1>8. Builtin!Min({raised, ltp}) \in {raised, ltp}
  BY <1>1, <1>7, MinOfTwo
<1>9. QED
  BY <1>1, <1>3, <1>7, <1>8

-----------------------------------------------------------------------------
(* What the strategies without memory offer has its type.                  *)

OfferTypes(offers) == \A x \in offers : x.price \in Nat /\ x.qty \in Nat

LEMMA EmergencyTypes ==
  ASSUME ScannedTypes, NEW q, QuoteTypes(q)
  PROVE  OfferTypes(Builtin!EmergencyExit(q))
<1>1. RowShape(row) /\ row.left \in Nat /\ q.bidQty \in Nat
  BY DEF ScannedTypes, Builtin!Row, RowShape, QuoteTypes
<1>2. \A x \in Builtin!EmergencyExit(q) : x.qty \in Nat
  BY <1>1, EmergencyOffers
<1>3. \A x \in Builtin!EmergencyExit(q) : x.price \in {1000 * q.ltp, 1000 * q.bid}
  <2> DEFINE part == IF q.bidQty # 0 THEN Builtin!Min({row.left, q.bidQty}) ELSE row.left
             one == [price |-> 1000 * q.bid, qty |-> IF order.split /\ part < row.left THEN part ELSE row.left]
  <2>1. one.price = 1000 * q.bid
    OBVIOUS
  <2>2. \A x \in Builtin!AtLtp(q, TRUE) : x.price = 1000 * q.ltp
    BY DEF Builtin!AtLtp, Builtin!Thousandths
  <2>3. \/ Builtin!EmergencyExit(q) = {}
        \/ Builtin!EmergencyExit(q) = Builtin!AtLtp(q, TRUE)
        \/ Builtin!EmergencyExit(q) = {one}
    BY Zenon DEF Builtin!EmergencyExit, Builtin!Thousandths
  <2> HIDE DEF one
  <2>4. ASSUME NEW x \in Builtin!EmergencyExit(q) PROVE x.price \in {1000 * q.ltp, 1000 * q.bid}
    <3>1. x \in Builtin!AtLtp(q, TRUE) \/ x = one
      BY <2>3, Zenon
    <3>2. x.price = 1000 * q.ltp \/ x.price = 1000 * q.bid
      BY <2>1, <2>2, <3>1, Zenon
    <3>3. QED
      BY <3>2, Zenon
  <2>5. QED
    BY <2>4
<1>4. QED
  BY <1>2, <1>3 DEF OfferTypes, QuoteTypes

LEMMA OffersTypes ==
  ASSUME ScannedTypes, OrderTypes, NEW q, QuoteTypes(q), NEW mem, NEW d, NEW strategy \in Builtin!Memoryless
  PROVE  OfferTypes(Builtin!Offers(strategy, q, mem, d))
<1>1. \A test : OfferTypes(Builtin!AtLtp(q, test)) /\ OfferTypes(Builtin!AtPrice(test))
  BY DEF Builtin!AtLtp, Builtin!AtPrice, Builtin!Thousandths, OfferTypes, QuoteTypes, OrderTypes
<1>2. OfferTypes(Builtin!TechnicalWeaknessSell(q, mem, d))
  <2>1. Builtin!SellLimit(q, 10, 0) \in Nat
    BY SellLimitType
  <2>2. QED
    BY <2>1 DEF OfferTypes, Builtin!TechnicalWeaknessSell
<1>3. OfferTypes(Builtin!EmergencyExit(q))
  BY EmergencyTypes
<1> HIDE DEF OfferTypes
<1>4. /\ OfferTypes(Builtin!QualityPullbackRecoveryBuy(q, mem, d)) /\ OfferTypes(Builtin!ConfirmedBreakoutBuy(q, mem, d))
      /\ OfferTypes(Builtin!MeanReversionBounceBuy(q, mem, d)) /\ OfferTypes(Builtin!OrderBookStrengthBuy(q, mem))
  <2>1. OfferTypes(Builtin!QualityPullbackRecoveryBuy(q, mem, d))
    BY <1>1, Zenon DEF Builtin!QualityPullbackRecoveryBuy
  <2>2. OfferTypes(Builtin!ConfirmedBreakoutBuy(q, mem, d))
    BY <1>1, Zenon DEF Builtin!ConfirmedBreakoutBuy
  <2>3. OfferTypes(Builtin!MeanReversionBounceBuy(q, mem, d))
    BY <1>1, Zenon DEF Builtin!MeanReversionBounceBuy
  <2>4. OfferTypes(Builtin!OrderBookStrengthBuy(q, mem))
    BY <1>1, Zenon DEF Builtin!OrderBookStrengthBuy
  <2>5. QED
    BY <2>1, <2>2, <2>3, <2>4
<1>5. OfferTypes(Builtin!SmartPullbackBuy(q, mem, d))
  BY <1>1, Zenon DEF Builtin!SmartPullbackBuy
<1>6. QED
  BY <1>1, <1>2, <1>3, <1>4, <1>5 DEF Builtin!Offers, Builtin!Memoryless

LEMMA DecideTypes ==
  ASSUME ScannedTypes, NEW q, QuoteTypes(q), NEW offers, OfferTypes(offers)
  PROVE  /\ Builtin!Decide(q, offers) => Typed
         /\ Builtin!Unguarded(q, offers) => Typed
<1>1. row \in Builtin!Row
  BY DEF ScannedTypes
<1>2. ASSUME Builtin!Decide(q, offers) PROVE Typed
  <2> DEFINE x == CHOOSE x \in offers : TRUE
  <2>1. CASE offers = {}
    BY <1>1, <1>2, <2>1, TrackTypes DEF Builtin!Decide
  <2>2. CASE offers # {}
    <3>1. x \in offers
      BY <2>2
    <3>2. Builtin!Execute(q, x.price, x.qty, row, 0)
      BY <1>2, <2>2 DEF Builtin!Decide
    <3> HIDE DEF x
    <3>3. QED
      BY <1>1, <3>1, <3>2, ExecuteTypes DEF OfferTypes
  <2>3. QED
    BY <2>1, <2>2
<1>3. ASSUME Builtin!Unguarded(q, offers) PROVE Typed
  <2>1. Builtin!Track(q, row) \/ \E x \in offers : Builtin!Submit(x.price, x.qty, row, 0)
    BY <1>3, Zenon DEF Builtin!Unguarded
  <2>2. QED
    BY <1>1, <2>1, TrackTypes, SubmitTypes DEF OfferTypes
<1>4. QED
  BY <1>2, <1>3

-----------------------------------------------------------------------------
(* What the strategies with memory write has its type.                     *)

LEMMA HigherType == ASSUME NEW a \in Nat, NEW b \in Nat PROVE Builtin!Max({a, b}) \in Nat
<1>1. a \in Int /\ b \in Int
  OBVIOUS
<1>2. Builtin!Max({a, b}) \in {a, b}
  BY <1>1, MinOfTwo
<1>3. QED
  BY <1>2

LEMMA ProtectTypes ==
  ASSUME ScannedTypes, OrderTypes, NEW q, QuoteTypes(q), Builtin!Protect(q)
  PROVE  Typed
<1> DEFINE peak == Builtin!Peak(row, q)
<1>1. row \in Builtin!Row /\ row.below \in Nat /\ row.below + 1 \in Nat /\ order.slip \in Nat /\ q.ltp \in Nat
  BY DEF ScannedTypes, Builtin!Row, OrderTypes, QuoteTypes
<1>2. peak \in Nat
  <2> DEFINE known == Builtin!OrElse(row.peak, Builtin!Entry)
  <2>1. known \in Nat
    BY <1>1, EntryType DEF Builtin!OrElse, Builtin!Row
  <2>2. Builtin!Peak(row, q) = Builtin!Max({known, q.ltp})
    BY DEF Builtin!Peak
  <2> HIDE DEF known
  <2>3. QED
    BY <1>1, <2>1, <2>2, HigherType
<1>3. ASSUME NEW count \in Nat PROVE Builtin!Tracked(q, count) \in Builtin!Row
  <2>1. Builtin!Tracked(q, count) = [row EXCEPT !.peak = peak, !.below = count]
    BY DEF Builtin!Tracked
  <2> HIDE DEF peak
  <2>2. QED
    BY <1>1, <1>2, <2>1 DEF Builtin!Row
<1>4. Builtin!SellLimit(q, order.slip, q.ltp) \in Nat
  BY <1>1, SellLimitType
<1>5. \/ \E r \in {row, Builtin!Tracked(q, 0), Builtin!Tracked(q, row.below), Builtin!Tracked(q, row.below + 1)} : Builtin!Track(q, r)
      \/ Builtin!Execute(q, Builtin!SellLimit(q, order.slip, q.ltp), 0, Builtin!Tracked(q, 0), 0)
  BY Zenon DEF Builtin!Protect
<1>6. QED
  BY <1>1, <1>3, <1>4, <1>5, TrackTypes, ExecuteTypes

LEMMA StopTypes ==
  ASSUME ScannedTypes, OrderTypes, NEW q, QuoteTypes(q)
  PROVE  /\ Builtin!StopLimitSell(q) => Typed
         /\ Builtin!FastStopLoss(q) => Typed
<1> DEFINE counted == [row EXCEPT !.below = row.below + 1]
           limit == Builtin!Thousandths(Builtin!OrElse(order.limit, order.price))
<1>1. row \in Builtin!Row /\ counted \in Builtin!Row
  BY DEF ScannedTypes, Builtin!Row
<1>2. limit \in Nat /\ order.slip \in Nat /\ order.stop \in Nat
  BY DEF OrderTypes, Builtin!Thousandths, Builtin!OrElse
<1>3. ASSUME Builtin!StopLimitSell(q) PROVE Typed
  <2>1. Builtin!Execute(q, limit, 0, row, 0) \/ Builtin!Protect(q)
    BY <1>3, Zenon DEF Builtin!StopLimitSell
  <2> HIDE DEF limit
  <2>2. QED
    BY <1>1, <1>2, <2>1, ExecuteTypes, ProtectTypes
<1>4. ASSUME Builtin!FastStopLoss(q) PROVE Typed
  <2>1. \/ Builtin!Execute(q, Builtin!SellLimit(q, order.slip, order.stop), 0, counted, 0)
        \/ Builtin!Track(q, counted)
        \/ Builtin!Protect(q)
    BY <1>4, Zenon DEF Builtin!FastStopLoss
  <2>2. Builtin!SellLimit(q, order.slip, order.stop) \in Nat
    BY <1>2, SellLimitType
  <2> HIDE DEF counted
  <2>3. QED
    BY <1>1, <2>1, <2>2, ExecuteTypes, TrackTypes, ProtectTypes
<1>5. QED
  BY <1>3, <1>4

LEMMA LadderTypes ==
  ASSUME ScannedTypes, OrderTypes, order \in Settings, NEW q, QuoteTypes(q)
  PROVE  /\ Builtin!Ladder(q) => Typed
         /\ Builtin!SmartProfit(q) => Typed
<1> DEFINE i == Builtin!Min(Builtin!Reached(q))
           r == IF order.legs = <<>> THEN [row EXCEPT !.sold = row.sold \cup {i}] ELSE row
           high == Builtin!Max({row.peak, q.ltp})
           known == Builtin!OrElse(row.peak, q.ltp)
           top == Builtin!Max({known, q.ltp})
           limit == Builtin!SellLimit(q, 10, 0)
<1>1. row \in Builtin!Row /\ RowShape(row) /\ row.peak \in Nat /\ known \in Nat /\ q.ltp \in Nat
  BY DEF ScannedTypes, Builtin!Row, RowShape, QuoteTypes, Builtin!OrElse
<1>2. limit \in Nat
  BY SellLimitType
<1>3. high \in Nat /\ top \in Nat
  <2> HIDE DEF known
  <2>1. QED
    BY <1>1, HigherType
<1>4. /\ \A peak \in Nat : [row EXCEPT !.peak = peak] \in Builtin!Row
      /\ [row EXCEPT !.reached = TRUE, !.peak = q.ltp] \in Builtin!Row
  BY <1>1 DEF Builtin!Row
<1>5. [row EXCEPT !.peak = high] \in Builtin!Row /\ [row EXCEPT !.peak = top] \in Builtin!Row
  <2> HIDE DEF high, top
  <2>1. QED
    BY <1>3, <1>4
<1>6. ASSUME Builtin!Ladder(q) PROVE Typed
  <2>1. CASE Builtin!Reached(q) # {}
    <3>1. i \in Nat /\ Builtin!LegQty(i) \in 0..row.left
      BY <1>1, <2>1, FirstReached
    <3>3. Builtin!LegQty(i) \in Nat
      BY <1>1, <3>1 DEF RowShape
    <3>4. r \in Builtin!Row
      <4> HIDE DEF i
      <4>1. QED
        BY <1>1, <3>1 DEF Builtin!Row
    <3>5. Builtin!Track(q, row) \/ Builtin!Execute(q, limit, Builtin!LegQty(i), r, i)
      BY <1>6, <2>1, Zenon DEF Builtin!Ladder
    <3> HIDE DEF i, r, limit
    <3>6. QED
      BY <1>1, <1>2, <3>1, <3>3, <3>4, <3>5, TrackTypes, ExecuteTypes
  <2>2. CASE Builtin!Reached(q) = {}
    <3>1. Builtin!Track(q, row) \/ Builtin!Track(q, [row EXCEPT !.peak = high])
      BY <1>6, <2>2, Zenon DEF Builtin!Ladder
    <3> HIDE DEF high
    <3>2. QED
      BY <1>1, <1>5, <3>1, TrackTypes DEF high
  <2>3. QED
    BY <2>1, <2>2
<1>7. ASSUME Builtin!SmartProfit(q) PROVE Typed
  <2>1. \/ Builtin!Execute(q, limit, 0, row, 0)
        \/ Builtin!Track(q, row)
        \/ Builtin!Track(q, [row EXCEPT !.reached = TRUE, !.peak = q.ltp])
        \/ Builtin!Track(q, [row EXCEPT !.peak = top])
    BY <1>7, Zenon DEF Builtin!SmartProfit
  <2> HIDE DEF top, limit
  <2>2. QED
    BY <1>1, <1>2, <1>4, <1>5, <2>1, TrackTypes, ExecuteTypes DEF top
<1>8. QED
  BY <1>6, <1>7

LEMMA RunnerTypes ==
  ASSUME ScannedTypes, NEW q, QuoteTypes(q), Builtin!Runner(q)
  PROVE  Typed
<1> DEFINE known == Builtin!OrElse(row.peak, q.ltp)
           high == Builtin!RunnerHigh(q)
<1>1. row \in Builtin!Row /\ row.left \in Nat /\ known \in Nat /\ q.ltp \in Nat
  BY DEF ScannedTypes, Builtin!Row, QuoteTypes, Builtin!OrElse
<1>2. high \in Nat
  <2>1. high = Builtin!Max({known, q.ltp})
    BY DEF Builtin!RunnerHigh
  <2> HIDE DEF known, high
  <2>2. QED
    BY <1>1, <2>1, HigherType
<1>3. Builtin!SellLimit(q, 10, 0) \in Nat
  BY SellLimitType
<1>4. [row EXCEPT !.peak = high] \in Builtin!Row
  <2> HIDE DEF high
  <2>1. QED
    BY <1>1, <1>2 DEF Builtin!Row
<1>5. \/ Builtin!Track(q, row)
      \/ Builtin!Execute(q, Builtin!SellLimit(q, 10, 0), row.left, row, 0)
      \/ Builtin!Track(q, [row EXCEPT !.peak = high])
  BY Zenon DEF Builtin!Runner
<1>6. QED
  BY <1>1, <1>3, <1>4, <1>5, TrackTypes, ExecuteTypes

LEMMA TimeBasedTypes ==
  ASSUME ScannedTypes, OrderTypes, order \in Settings, NEW q, QuoteTypes(q), NEW mem, NEW d
  PROVE  /\ order.strategy = "Time-Based Buy" /\ Builtin!TimeBasedBuy(q, mem, d) => Typed
         /\ Builtin!TimeBasedExit(q) => Typed
<1>1. row \in Builtin!Row
  BY DEF ScannedTypes
<1>2. ASSUME Builtin!Ends("Expired") PROVE Typed
  <2>1. row' = row /\ sales' = sales /\ outcome' = "Expired"
    BY <1>2, Zenon DEF Builtin!Ends
  <2>2. "Expired" \in Statuses
    BY Zenon DEF Statuses
  <2>3. QED
    BY <1>1, <2>1, <2>2, Zenon DEF Typed, ScannedTypes
<1>3. ASSUME order.strategy = "Time-Based Buy", Builtin!TimeBasedBuy(q, mem, d) PROVE Typed
  <2>1. OfferTypes(Builtin!Offers(order.wrapped, q, mem, d))
    <3>1. order.wrapped \in Builtin!Memoryless
      BY <1>3, StrategyConstants, Zenon
    <3>2. QED
      BY <3>1, OffersTypes
  <2>2. Builtin!Ends("Expired") \/ Builtin!Unguarded(q, Builtin!Offers(order.wrapped, q, mem, d))
    BY <1>3, Zenon DEF Builtin!TimeBasedBuy
  <2>3. QED
    BY <1>2, <2>1, <2>2, DecideTypes
<1>4. ASSUME Builtin!TimeBasedExit(q) PROVE Typed
  <2>1. Builtin!Track(q, row) \/ Builtin!Unguarded(q, Builtin!EmergencyExit(q)) \/ Builtin!Ends("Expired")
    BY <1>4, Zenon DEF Builtin!TimeBasedExit
  <2>2. QED
    BY <1>1, <1>2, <2>1, EmergencyTypes, TrackTypes, DecideTypes
<1>5. QED
  BY <1>3, <1>4, Zenon

LEMMA GuardedTypes ==
  ASSUME ScannedTypes, OrderTypes, order \in Settings, NEW q, QuoteTypes(q), NEW mem, NEW d, Builtin!Guarded(q, mem, d)
  PROVE  Typed
<1>1. CASE order.strategy \in Builtin!Memoryless /\ Builtin!Decide(q, Builtin!Offers(order.strategy, q, mem, d))
  BY <1>1, OffersTypes, DecideTypes
<1>2. CASE Builtin!StopLimitSell(q) \/ Builtin!FastStopLoss(q) \/ Builtin!Protect(q)
  BY <1>2, StopTypes, ProtectTypes
<1>3. CASE Builtin!Ladder(q) \/ Builtin!SmartProfit(q)
  BY <1>3, LadderTypes
<1>4. CASE Builtin!Runner(q)
  BY <1>4, RunnerTypes
<1>5. CASE order.strategy = "Time-Based Buy" /\ Builtin!TimeBasedBuy(q, mem, d)
  BY <1>5, TimeBasedTypes, Zenon
<1>6. CASE Builtin!TimeBasedExit(q)
  BY <1>6, TimeBasedTypes, Zenon
<1>7. QED
  BY <1>1, <1>2, <1>3, <1>4, <1>5, <1>6, Zenon DEF Builtin!Guarded

-----------------------------------------------------------------------------
(* The types of a built-in strategy in every state.                        *)

StrategyTypes ==
  /\ order \in Settings /\ ScannedTypes /\ sales \in Seq(SaleType)
  /\ prices \in Seq(Nat) /\ Len(prices) <= 3 /\ expired \in BOOLEAN /\ scanned \in 0..MaxStrategyScans

LEMMA RememberedTypes ==
  ASSUME prices \in Seq(Nat), Len(prices) <= 3, NEW q, q.ltp \in Nat
  PROVE  Builtin!Remembered(q) \in Seq(Nat) /\ Len(Builtin!Remembered(q)) <= 3
<1> DEFINE all == Append(prices, q.ltp)
<1>1. all \in Seq(Nat) /\ Len(all) <= 4
  OBVIOUS
<1> HIDE DEF all
<1>2. all # <<>> => Tail(all) \in Seq(Nat) /\ Len(Tail(all)) = Len(all) - 1
  BY <1>1
<1>3. Len(all) > 3 => all # <<>>
  BY <1>1
<1>4. Builtin!Remembered(q) = IF Len(all) > 3 THEN Tail(all) ELSE all
  BY DEF Builtin!Remembered, all
<1>5. QED
  BY <1>1, <1>2, <1>3, <1>4

LEMMA StrategyTypesStep == StrategyTypes /\ [Builtin!Next]_(Builtin!vars) => StrategyTypes'
<1> SUFFICES ASSUME StrategyTypes, [Builtin!Next]_(Builtin!vars) PROVE StrategyTypes'
  OBVIOUS
<1>1. OrderTypes
  BY StrategyConstants, Zenon DEF StrategyTypes, OrderTypes
<1>2. ASSUME NEW q \in Quotes, NEW d, Builtin!Scan(q, d) PROVE StrategyTypes'
  <2>1. QuoteTypes(q)
    BY StrategyConstants, Zenon DEF QuoteTypes
  <2>2. /\ Builtin!Guarded(q, Builtin!Remembered(q), d) /\ prices' = Builtin!Remembered(q)
        /\ scanned < MaxStrategyScans /\ scanned' = scanned + 1 /\ order' = order /\ expired' = expired
    BY <1>2, Zenon DEF Builtin!Scan
  <2>3. Typed
    BY <1>1, <2>1, <2>2, GuardedTypes DEF StrategyTypes
  <2>4. prices' \in Seq(Nat) /\ Len(prices') <= 3
    BY <2>1, <2>2, RememberedTypes DEF StrategyTypes, QuoteTypes
  <2>5. scanned' \in 0..MaxStrategyScans
    <3>1. MaxStrategyScans \in Nat /\ scanned \in 0..MaxStrategyScans
      BY StrategyConstants, Zenon DEF StrategyTypes
    <3>2. QED
      BY <2>2, <3>1
  <2>6. sales' \in Seq(SaleType)
    <3>1. sales \in Seq(SaleType)
      BY DEF StrategyTypes
    <3>2. QED
      BY <2>3, <3>1 DEF Typed
  <2>7. QED
    BY <2>2, <2>3, <2>4, <2>5, <2>6 DEF StrategyTypes, Typed
<1>3. CASE Builtin!TimePasses
  BY <1>3 DEF Builtin!TimePasses, StrategyTypes, ScannedTypes
<1>4. CASE UNCHANGED Builtin!vars
  BY <1>4 DEF Builtin!vars, StrategyTypes, ScannedTypes
<1>5. QED
  BY <1>2, <1>3, <1>4, Zenon DEF Builtin!Next

\* What a strategy writes to the row, remembers and sells has its type: prices and quantities
\* are natural numbers, also where a limit is computed by taking off a percentage, and no more
\* than three prices are remembered (scan_price_history, resolve_sell_limit_price).
THEOREM StrategyTypeCorrect == Builtin!Spec => []Builtin!TypeOK
<1>1. Builtin!Init => StrategyTypes
  <2> SUFFICES ASSUME Builtin!Init PROVE StrategyTypes
    OBVIOUS
  <2> DEFINE first == [peak |-> 0, below |-> 0, reached |-> FALSE, sold |-> {}, left |-> order.qty, last |-> 0]
  <2>1. /\ order \in Settings /\ row = first /\ sales = <<>> /\ prices = <<>> /\ expired = FALSE /\ scanned = 0
        /\ outcome = "Active"
    BY Zenon DEF Builtin!Init
  <2>2. order.qty \in Nat /\ MaxStrategyScans \in Nat
    BY <2>1, StrategyConstants, Zenon
  <2>3. row \in Builtin!Row
    BY <2>1, <2>2 DEF Builtin!Row
  <2>4. outcome \in Statuses
    BY <2>1, Zenon DEF Statuses
  <2>5. /\ sales \in Seq(SaleType) /\ prices \in Seq(Nat) /\ Len(prices) <= 3
        /\ expired \in BOOLEAN /\ scanned \in 0..MaxStrategyScans
    <3>1. sales = <<>> /\ prices = <<>> /\ expired = FALSE /\ scanned = 0
      BY <2>1
    <3>2. sales \in Seq(SaleType)
      BY <3>1
    <3>3. prices \in Seq(Nat) /\ Len(prices) <= 3
      BY <3>1
    <3>4. scanned \in 0..MaxStrategyScans
      BY <2>2, <3>1
    <3>5. expired \in BOOLEAN
      BY <3>1, Zenon
    <3>6. QED
      BY <3>2, <3>3, <3>4, <3>5
  <2>6. QED
    BY <2>1, <2>3, <2>4, <2>5, Zenon DEF StrategyTypes, ScannedTypes
<1>2. StrategyTypes /\ breaches \in 0..2 => Builtin!TypeOK
  BY Zenon DEF StrategyTypes, ScannedTypes, Statuses, SaleType, Builtin!TypeOK
<1>3. StrategyIInv => breaches \in 0..2
  BY DEF StrategyIInv, BreachesCounted
<1>4. QED
  BY <1>1, <1>2, <1>3, StrategyTypesStep, StrategyInvariant, PTL DEF Builtin!Spec

\* A behaviour of the monitor's scans is one of a rule-based order and one of a built-in
\* strategy: what is proved of either holds for it.
THEOREM ScansAreBoth == ScanSpec => Spec /\ Builtin!Spec
<1>1. ScanInit => Init /\ Builtin!Init
  BY DEF ScanInit
<1>2. [ScanNext]_<<kind, vars, strategyVars>> => [Next]_vars /\ [Builtin!Next]_(Builtin!vars)
  BY DEF ScanNext, vars, strategyVars, Builtin!vars
<1>3. QED
  BY <1>1, <1>2, PTL DEF ScanSpec, Spec, Builtin!Spec

-----------------------------------------------------------------------------
(* Scheduling requests: the inductive invariant.                           *)

RowFields(entry) == {"symbol", "form", "qty", "price", "trigger", "reference", "literal", "key", "refs", "shown", "edited",
                      "captured", "refreshed", "overtaken"} \subseteq DOMAIN entry
TaskFields(task) == {"at", "tries", "row", "error"} \subseteq DOMAIN task
JobFields(j) == {"stage", "form", "target", "saw", "steady", "task"} \subseteq DOMAIN j

JobShape ==
  /\ DOMAIN job = Requests
  /\ \A r \in Requests :
       /\ JobFields(job[r]) /\ DOMAIN job[r].task = Symbols
       /\ job[r].steady \in BOOLEAN
       /\ \A s \in Symbols : TaskFields(TaskOf(r, s)) /\ TaskOf(r, s).tries \in Nat
       /\ job[r].stage \in {"idle", "preflight", "running", "done"}
       /\ job[r].stage # "idle" => job[r].form \in DOMAIN Forms
       /\ job[r].stage = "preflight" => F(r).kind = "batch"

\* A committed row belongs to a request that has moved on from it.
Identified(id) ==
  /\ id = <<id[1], id[2], id[3]>> /\ id[1] \in Requests /\ id[2] \in Symbols /\ id[3] \in Nat
  /\ \/ job[id[1]].stage = "done"
     \/ /\ job[id[1]].stage = "running" /\ F(id[1]).kind # "drop"
        /\ TaskOf(id[1], id[2]).at \in Ended \/ id[3] < TaskOf(id[1], id[2]).tries
RowsCommitted ==
  \A id \in DOMAIN rows : Identified(id) /\ RowFields(rows[id])

\* The row a task works on: its own, of its symbol.
Working(r, s) == job[r].stage \in {"preflight", "running"} /\ s \in F(r).symbols /\ TaskOf(r, s).at \notin Ended
WorkKept ==
  \A r \in Requests, s \in Symbols : Working(r, s) /\ F(r).kind # "refresh" =>
    /\ RowFields(Work(r, s)) /\ Work(r, s).symbol = s /\ Work(r, s).form = job[r].form
    /\ TaskOf(r, s).at = "snapshot" => F(r).kind # "drop"

\* An edit or refresh is of a committed row; a refresh works on a copy of it.
TargetKept ==
  /\ <<>> \notin DOMAIN rows
  /\ \A r \in Requests :
       IF job[r].stage # "idle" /\ F(r).kind \in {"edit", "refresh"} THEN job[r].target \in DOMAIN rows ELSE job[r].target = <<>>
  /\ \A r \in Requests, s \in Symbols :
       Working(r, s) /\ F(r).kind = "refresh" =>
         RowFields(Work(r, s)) /\ TaskOf(r, s).at = "references" /\ job[r].stage = "running"

\* While nothing changes under a request, what its preflight found held still is.
HoldingKept ==
  \A r \in Requests, s \in Symbols :
    /\ At(r, s, {"baseline", "checks", "references", "snapshot"}) /\ F(r).kind \in {"create", "add"}
    /\ job[r].steady /\ SellsQuantity(F(r), s) /\ (\E t \in Symbols : answers[t].held > 0)
    => FirstRule(F(r).plan, s).value <= answers[s].held

ScheduleIInv == answers \in Markets /\ JobShape /\ RowsCommitted /\ WorkKept /\ TargetKept /\ HoldingKept

-----------------------------------------------------------------------------
(* One step of one task.                                                   *)

\* What a step leaves of the other tasks.
OnlyTask(r, s, task, steady) ==
  /\ TaskOf(r, s)' = task
  /\ \A p \in Requests, t \in Symbols : p # r \/ t # s => TaskOf(p, t)' = TaskOf(p, t)
  /\ \A p \in Requests :
       /\ job'[p].stage = job[p].stage /\ job'[p].form = job[p].form
       /\ job'[p].target = job[p].target /\ job'[p].saw = job[p].saw
       /\ p # r => job'[p].steady = job[p].steady
  /\ job'[r].steady = (job[r].steady /\ steady)

LEMMA WorksOnly ==
  ASSUME JobShape, NEW r \in Requests, NEW s \in Symbols, NEW task, TaskFields(task), task.tries \in Nat,
         NEW steady \in BOOLEAN, Works(r, s, task, steady)
  PROVE  JobShape' /\ OnlyTask(r, s, task, steady)
<1> DEFINE j == [job[r] EXCEPT !.task = [job[r].task EXCEPT ![s] = task], !.steady = job[r].steady /\ steady]
<1>1. job' = [job EXCEPT ![r] = j]
  BY DEF Works
<1>2. DOMAIN job = Requests /\ JobFields(job[r]) /\ DOMAIN job[r].task = Symbols
  BY DEF JobShape
<1>3. /\ JobFields(j) /\ j.stage = job[r].stage /\ j.form = job[r].form /\ j.target = job[r].target /\ j.saw = job[r].saw
      /\ j.steady = (job[r].steady /\ steady)
      /\ DOMAIN j.task = Symbols /\ j.task[s] = task
      /\ \A t \in Symbols : t # s => j.task[t] = job[r].task[t]
  BY <1>2 DEF JobFields
<1> HIDE DEF j
<1>4. job'[r] = j /\ DOMAIN job' = Requests /\ \A p \in Requests : p # r => job'[p] = job[p]
  BY <1>1, <1>2
<1>5. QED
  BY <1>3, <1>4 DEF JobShape, OnlyTask, TaskOf, F

LEMMA FormFacts ==
  ASSUME JobShape, NEW r \in Requests, job[r].stage # "idle"
  PROVE  /\ F(r).name = job[r].form /\ F(r).symbols \subseteq Symbols /\ F(r).symbols # {}
         /\ F(r).kind \in {"create", "add", "edit", "refresh", "batch", "drop"}
         /\ F(r).kind \in {"batch", "drop"} => F(r).side = "buy"
         /\ \A i \in DOMAIN F(r).plan.rules : i \in Nat /\ F(r).plan.rules[i].value \in Int
BY SchedulesAssumption DEF JobShape, F, FormOf

\* A task's new state fits its request.
TaskFits(r, s, task) ==
  /\ TaskFields(task) /\ task.tries \in Nat /\ TaskOf(r, s).tries <= task.tries
  /\ F(r).kind = "refresh" => task.at \in Ended
  /\ F(r).kind # "refresh" /\ task.at \notin Ended =>
       /\ RowFields(task.row) /\ task.row.symbol = s /\ task.row.form = job[r].form
       /\ task.at = "snapshot" => F(r).kind # "drop"

\* What a request that sells a quantity knows is held.
Backed(f, s) == FirstRule(f.plan, s).value <= answers[s].held
Counting(f, s) == f.kind \in {"create", "add"} /\ SellsQuantity(f, s) /\ (\E t \in Symbols : answers[t].held > 0)
Late == {"baseline", "checks", "references", "snapshot"}

LEMMA TaskStep ==
  ASSUME ScheduleIInv, answers' = answers, NEW r \in Requests, NEW s \in Symbols, Working(r, s),
         NEW task, TaskFits(r, s, task), NEW steady \in BOOLEAN, Works(r, s, task, steady),
         task.at \in Late /\ Counting(F(r), s) /\ job[r].steady /\ steady /\ job[r].stage = "running"
           => TaskOf(r, s).at \in Late \/ Backed(F(r), s)
  PROVE  /\ JobShape' /\ WorkKept' /\ HoldingKept' /\ OnlyTask(r, s, task, steady)
         /\ \A p \in Requests : F(p)' = F(p)
<1>1. JobShape /\ WorkKept /\ HoldingKept
  BY DEF ScheduleIInv
<1>2. JobShape' /\ OnlyTask(r, s, task, steady)
  BY <1>1, WorksOnly DEF TaskFits
<1>3. /\ \A p \in Requests : F(p)' = F(p) /\ job'[p].stage = job[p].stage /\ job'[p].form = job[p].form
      /\ \A p \in Requests : p # r => job'[p].steady = job[p].steady
      /\ job'[r].steady = (job[r].steady /\ steady)
      /\ \A p \in Requests, t \in Symbols : p # r \/ t # s => TaskOf(p, t)' = TaskOf(p, t) /\ Work(p, t)' = Work(p, t)
      /\ TaskOf(r, s)' = task /\ Work(r, s)' = task.row
  BY <1>2 DEF OnlyTask, F, Work, TaskOf
<1>4. WorkKept'
  <2> SUFFICES ASSUME NEW p \in Requests, NEW t \in Symbols, Working(p, t)', F(p)'.kind # "refresh"
               PROVE  /\ RowFields(Work(p, t)') /\ Work(p, t)'.symbol = t /\ Work(p, t)'.form = job'[p].form
                      /\ TaskOf(p, t)'.at = "snapshot" => F(p)'.kind # "drop"
    BY DEF WorkKept, RowFields
  <2>1. CASE p = r /\ t = s
    BY <2>1, <1>3 DEF TaskFits, Working
  <2>2. CASE p # r \/ t # s
    BY <2>2, <1>1, <1>3 DEF WorkKept, Working
  <2>3. QED
    BY <2>1, <2>2
<1>5. HoldingKept'
  <2> SUFFICES ASSUME NEW p \in Requests, NEW t \in Symbols, At(p, t, Late)', Counting(F(p), t)', job'[p].steady
               PROVE  Backed(F(p), t)'
    BY DEF HoldingKept, Late, Counting, Backed
  <2>1. Counting(F(p), t) /\ (Backed(F(p), t) => Backed(F(p), t)')
    BY <1>3 DEF Counting, Backed
  <2>2. /\ job[p].steady /\ job[p].stage = "running" /\ t \in F(p).symbols /\ TaskOf(p, t)'.at \in Late
    BY <1>1, <1>3 DEF At, TaskOf, JobShape
  <2>3. TaskOf(p, t).at \in Late \/ Backed(F(p), t)
    BY <1>3, <2>1, <2>2
  <2>4. QED
    BY <1>1, <2>1, <2>2, <2>3 DEF HoldingKept, At, Late, TaskOf, Counting, Backed
<1>6. QED
  BY <1>2, <1>3, <1>4, <1>5

-----------------------------------------------------------------------------
(* What a step does to the rows.                                           *)

\* The rows are kept, or a request commits one: its own, once, or its target.
Commits(r, s, task, id) ==
  /\ DOMAIN rows' = DOMAIN rows \cup {id}
  /\ \A i \in DOMAIN rows : i # id => rows'[i] = rows[i]
  /\ RowFields(rows'[id])
  /\ \/ /\ id = <<r, s, TaskOf(r, s).tries>> /\ F(r).kind \notin {"edit", "refresh", "drop"}
        /\ task.at \in Ended \/ TaskOf(r, s).tries < task.tries
     \/ id = job[r].target /\ F(r).kind \in {"edit", "refresh"}

LEMMA TripleNotEmpty == \A a, b, c : <<a, b, c>> # <<>>
<1>1. \A a, b, c : Len(<<a, b, c>>) = 3 /\ Len(<<>>) = 0
  OBVIOUS
<1>2. QED
  BY <1>1

LEMMA RowsStep ==
  ASSUME ScheduleIInv, NEW r \in Requests, NEW s \in Symbols, Working(r, s), job[r].stage = "running",
         NEW task, TaskFits(r, s, task), NEW steady, OnlyTask(r, s, task, steady),
         \A p \in Requests : F(p)' = F(p),
         rows' = rows \/ \E id : Commits(r, s, task, id)
  PROVE  RowsCommitted' /\ TargetKept'
<1>1. JobShape /\ RowsCommitted /\ TargetKept
  BY DEF ScheduleIInv
<1>2. /\ \A p \in Requests : /\ job'[p].stage = job[p].stage /\ job'[p].form = job[p].form
                            /\ job'[p].target = job[p].target
      /\ \A p \in Requests, t \in Symbols : p # r \/ t # s => TaskOf(p, t)' = TaskOf(p, t) /\ Work(p, t)' = Work(p, t)
      /\ TaskOf(r, s)' = task
  BY DEF OnlyTask, Work, TaskOf
<1>3. ASSUME NEW id \in DOMAIN rows PROVE Identified(id)'
  <2>1. Identified(id)
    BY <1>1 DEF RowsCommitted
  <2>2. id[1] \in Requests /\ id[2] \in Symbols /\ id[3] \in Nat
    BY <2>1 DEF Identified
  <2>3. CASE id[1] = r /\ id[2] = s
    <3>1. F(r).kind # "drop" /\ id[3] < TaskOf(r, s).tries
      BY <2>1, <2>3 DEF Identified, Working
    <3>2. id[3] < task.tries
      <4>1. TaskOf(r, s).tries \in Nat /\ task.tries \in Nat /\ TaskOf(r, s).tries <= task.tries
        BY <1>1 DEF JobShape, TaskFits
      <4>2. QED
        BY <3>1, <4>1, <2>2
    <3>3. Identified(id)'
      BY <1>2, <2>1, <2>3, <3>1, <3>2 DEF Identified
    <3>4. QED
      BY <3>3
  <2>4. CASE ~(id[1] = r /\ id[2] = s)
    <3>1. TaskOf(id[1], id[2])' = TaskOf(id[1], id[2])
      BY <1>2, <2>2, <2>4
    <3>2. Identified(id)'
      BY <1>2, <2>1, <2>2, <3>1 DEF Identified
    <3>3. QED
      BY <3>2
  <2>5. QED
    BY <2>3, <2>4
<1>5. \A p \in Requests, t \in Symbols : Working(p, t)' /\ F(p)'.kind = "refresh" =>
        /\ Working(p, t) /\ F(p).kind = "refresh" /\ TaskOf(p, t)' = TaskOf(p, t) /\ Work(p, t)' = Work(p, t)
        /\ p # r \/ t # s
  BY <1>2 DEF Working, TaskFits
<1>6. CASE rows' = rows
  <2>1. RowsCommitted'
    BY <1>1, <1>3, <1>6 DEF RowsCommitted, RowFields
  <2>2. TargetKept'
    BY <1>1, <1>2, <1>5, <1>6 DEF TargetKept, RowFields
  <2>3. QED
    BY <2>1, <2>2
<1>7. CASE \E id : Commits(r, s, task, id)
  <2>1. PICK id : Commits(r, s, task, id)
    BY <1>7
  <2>2. Identified(id)' /\ id # <<>>
    <3>1. CASE id \in DOMAIN rows
      BY <1>1, <1>3, <3>1 DEF TargetKept
    <3>2. CASE id \notin DOMAIN rows
      <4>1. /\ id = <<r, s, TaskOf(r, s).tries>> /\ F(r).kind \notin {"edit", "refresh", "drop"}
            /\ task.at \in Ended \/ TaskOf(r, s).tries < task.tries
        BY <1>1, <2>1, <3>2 DEF Commits, TargetKept
      <4>2. TaskOf(r, s).tries \in Nat
        BY <1>1 DEF JobShape
      <4>3. QED
        BY <1>2, <4>1, <4>2, TripleNotEmpty DEF Identified
    <3>3. QED
      BY <3>1, <3>2
  <2>3. RowsCommitted'
    <3> SUFFICES ASSUME NEW i \in DOMAIN rows'
                 PROVE  Identified(i)' /\ RowFields(rows'[i])
      BY DEF RowsCommitted, RowFields
    <3>1. CASE i = id
      BY <1>3, <2>1, <2>2, <3>1 DEF Commits
    <3>2. CASE i # id
      BY <1>1, <1>3, <2>1, <3>2 DEF Commits, RowsCommitted
    <3>3. QED
      BY <3>1, <3>2
  <2>5. TargetKept'
    <3>1. <<>> \notin DOMAIN rows'
      BY <1>1, <2>1, <2>2 DEF Commits, TargetKept
    <3>2. \A p \in Requests :
            IF job'[p].stage # "idle" /\ F(p)'.kind \in {"edit", "refresh"} THEN job'[p].target \in DOMAIN rows' ELSE job'[p].target = <<>>
      BY <1>1, <1>2, <2>1 DEF Commits, TargetKept
    <3>3. \A p \in Requests, t \in Symbols : Working(p, t)' /\ F(p)'.kind = "refresh" =>
            RowFields(Work(p, t)') /\ TaskOf(p, t)'.at = "references" /\ job'[p].stage = "running"
      BY <1>1, <1>2, <1>5 DEF TargetKept
    <3>4. QED
      BY <3>1, <3>2, <3>3 DEF TargetKept, RowFields
  <2>6. QED
    BY <2>3, <2>5
<1>8. QED
  BY <1>6, <1>7

-----------------------------------------------------------------------------
(* The steps of a task, one by one.                                        *)

LEMMA StepKeeps ==
  ASSUME ScheduleIInv, answers' = answers, NEW r \in Requests, NEW s \in Symbols, Working(r, s),
         job[r].stage = "running",
         NEW task, TaskFits(r, s, task), NEW steady \in BOOLEAN, Works(r, s, task, steady),
         task.at \in Late /\ Counting(F(r), s) /\ job[r].steady /\ steady => TaskOf(r, s).at \in Late \/ Backed(F(r), s),
         rows' = rows \/ \E id : Commits(r, s, task, id)
  PROVE  ScheduleIInv' /\ OnlyTask(r, s, task, steady)
<1>1. /\ JobShape' /\ WorkKept' /\ HoldingKept' /\ OnlyTask(r, s, task, steady)
      /\ \A p \in Requests : F(p)' = F(p)
  BY TaskStep
<1>2. RowsCommitted' /\ TargetKept'
  BY <1>1, RowsStep
<1>3. QED
  BY <1>1, <1>2 DEF ScheduleIInv

\* What is known of a task at work.
LEMMA AtWork ==
  ASSUME ScheduleIInv, NEW r \in Requests, NEW s \in Symbols, NEW stages, stages \cap Ended = {}, At(r, s, stages)
  PROVE  /\ Working(r, s) /\ job[r].stage = "running" /\ TaskOf(r, s).at \in stages
         /\ TaskFields(TaskOf(r, s)) /\ TaskOf(r, s).tries \in Nat /\ job[r].steady \in BOOLEAN
         /\ F(r).kind = "refresh" => TaskOf(r, s).at = "references" /\ job[r].target \in DOMAIN rows
                                     /\ RowFields(Work(r, s))
         /\ F(r).kind # "refresh" =>
              /\ RowFields(Work(r, s)) /\ Work(r, s).symbol = s /\ Work(r, s).form = job[r].form
              /\ TaskOf(r, s).at = "snapshot" => F(r).kind # "drop"
<1>1. Working(r, s) /\ job[r].stage = "running" /\ TaskOf(r, s).at \in stages
  BY DEF At, Working, TaskOf
<1>2. QED
  BY <1>1 DEF ScheduleIInv, JobShape, WorkKept, TargetKept

\* The task of Refuse.
LEMMA FailFits ==
  ASSUME NEW r, NEW s, TaskFields(TaskOf(r, s)), TaskOf(r, s).tries \in Nat, NEW error
  PROVE  TaskFits(r, s, Failed(r, s, error)) /\ Failed(r, s, error).at = "failed"
BY DEF TaskFields, TaskFits, Failed, Ended

LEMMA RefuseKeeps ==
  ASSUME ScheduleIInv, answers' = answers, rows' = rows, NEW r \in Requests, NEW s \in Symbols,
         Working(r, s), job[r].stage = "running", NEW error, Refuse(r, s, error)
  PROVE  ScheduleIInv'
<1>1. TaskFields(TaskOf(r, s)) /\ TaskOf(r, s).tries \in Nat
  BY DEF ScheduleIInv, JobShape
<1>2. TaskFits(r, s, Failed(r, s, error)) /\ Failed(r, s, error).at \notin Late
  BY <1>1, FailFits DEF Late
<1>3. QED
  BY <1>2, StepKeeps DEF Refuse

\* A step of a request that is not a refresh, to a stage of its row.
LEMMA AdvanceKeeps ==
  ASSUME ScheduleIInv, answers' = answers, rows' = rows, NEW r \in Requests, NEW s \in Symbols,
         Working(r, s), job[r].stage = "running", F(r).kind # "refresh",
         NEW at, NEW entry, Step(r, s, at, entry),
         RowFields(entry), entry.symbol = s, entry.form = job[r].form,
         at = "snapshot" => F(r).kind # "drop",
         at \in Late /\ Counting(F(r), s) => TaskOf(r, s).at \in Late \/ Backed(F(r), s)
  PROVE  ScheduleIInv'
<1> DEFINE task == [TaskOf(r, s) EXCEPT !.at = at, !.row = entry]
<1>1. TaskFields(TaskOf(r, s)) /\ TaskOf(r, s).tries \in Nat
  BY DEF ScheduleIInv, JobShape
<1>2. TaskFields(task) /\ task.tries = TaskOf(r, s).tries /\ task.at = at /\ task.row = entry
  BY <1>1 DEF TaskFields
<1>3. Works(r, s, task, TRUE)
  BY DEF Step
<1> HIDE DEF task
<1>4. TaskFits(r, s, task)
  BY <1>1, <1>2 DEF TaskFits
<1>5. QED
  BY <1>2, <1>3, <1>4, StepKeeps

LEMMA NextSymbolKeeps ==
  ASSUME ScheduleIInv, NEW r \in Requests, NEW s \in Symbols, NextSymbol(r, s)
  PROVE  ScheduleIInv'
<1>1. /\ At(r, s, {"queued"}) /\ F(r).kind = "drop" /\ Step(r, s, "baseline", Work(r, s))
      /\ answers' = answers /\ rows' = rows
  BY DEF NextSymbol
<1>2. /\ Working(r, s) /\ job[r].stage = "running"
      /\ RowFields(Work(r, s)) /\ Work(r, s).symbol = s /\ Work(r, s).form = job[r].form
  BY <1>1, AtWork DEF Ended
<1>3. ~Counting(F(r), s)
  BY <1>1 DEF Counting
<1>4. QED
  BY <1>1, <1>2, <1>3, AdvanceKeeps

LEMMA BaselinedKeeps ==
  ASSUME ScheduleIInv, NEW r \in Requests, NEW s \in Symbols, Baselined(r, s)
  PROVE  ScheduleIInv'
<1> DEFINE f == F(r)
           entry == Based(f, Work(r, s), answers[s])
<1>1. At(r, s, {"baseline"}) /\ answers' = answers /\ rows' = rows
  BY DEF Baselined
<1>2. /\ Working(r, s) /\ job[r].stage = "running" /\ TaskOf(r, s).at = "baseline" /\ f.kind # "refresh"
      /\ RowFields(Work(r, s)) /\ Work(r, s).symbol = s /\ Work(r, s).form = job[r].form
  BY <1>1, AtWork DEF Ended
<1>3. RowFields(entry) /\ entry.symbol = s /\ entry.form = job[r].form
  <2>1. ASSUME NEW ref, NEW b, b = WithBaseline(Work(r, s), f, ref)
        PROVE  RowFields(b) /\ b.symbol = s /\ b.form = job[r].form
    BY <1>2, <2>1 DEF WithBaseline, RowFields
  <2>2. \/ entry = Work(r, s)
        \/ \E ref : entry = WithBaseline(Work(r, s), f, ref)
    BY DEF Based
  <2>3. QED
    BY <1>2, <2>1, <2>2
<1> HIDE DEF entry
<1>4. \/ \E error : Refuse(r, s, error)
      \/ \E at \in {"skipped", "preflight", "checks"} : Step(r, s, at, entry)
  <2>1. (Captures(f) /\ ~BaselineAvailable(answers[s], f.drop)) \/ (Captures(f) => BaselineAvailable(answers[s], f.drop))
    OBVIOUS
  <2>2. \/ Refuse(r, s, "data")
        \/ IF f.kind = "add" /\ Duplicate(f, entry) THEN Step(r, s, "skipped", entry)
           ELSE Step(r, s, IF f.kind = "drop" THEN "preflight" ELSE "checks", entry)
    BY <2>1 DEF Baselined, entry
  <2>3. QED
    BY <2>2
<1>5. TaskOf(r, s).at \in Late
  BY <1>2 DEF Late
<1>6. QED
  BY <1>1, <1>2, <1>3, <1>4, <1>5, RefuseKeeps, AdvanceKeeps

LEMMA CheckedKeeps ==
  ASSUME ScheduleIInv, NEW r \in Requests, NEW s \in Symbols, Checked(r, s)
  PROVE  ScheduleIInv'
<1> DEFINE f == F(r)
           entry == IF f.kind = "edit" THEN Updated(rows[job[r].target], Work(r, s), f) ELSE Work(r, s)
<1>1. At(r, s, {"checks"}) /\ answers' = answers /\ rows' = rows
  BY DEF Checked
<1>2. /\ Working(r, s) /\ job[r].stage = "running" /\ TaskOf(r, s).at = "checks" /\ f.kind # "refresh"
      /\ RowFields(Work(r, s)) /\ Work(r, s).symbol = s /\ Work(r, s).form = job[r].form
  BY <1>1, AtWork DEF Ended
<1>3. RowFields(entry) /\ entry.symbol = s /\ entry.form = job[r].form
  BY <1>2 DEF Updated, RowFields
<1> HIDE DEF entry
<1>4. \/ \E error : Refuse(r, s, error)
      \/ \E at \in {"skipped", "references"} : Step(r, s, at, entry)
  <2>1. \/ Refuse(r, s, "check")
        \/ Step(r, s, IF f.kind = "create" /\ Duplicate(f, entry) THEN "skipped" ELSE "references", entry)
    BY DEF Checked, entry
  <2>2. QED
    BY <2>1
<1>5. TaskOf(r, s).at \in Late
  BY <1>2 DEF Late
<1>6. QED
  BY <1>1, <1>2, <1>3, <1>4, <1>5, RefuseKeeps, AdvanceKeeps

-----------------------------------------------------------------------------
(* The preflight of a sale.                                                *)

\* The first rule for a symbol is one of its plan.
LEMMA FirstRuleIn ==
  ASSUME NEW p, NEW s, RuleFor(p, s) # {}, \A i \in DOMAIN p.rules : i \in Nat
  PROVE  FirstRule(p, s) \in RulesOf(p) /\ s \in FirstRule(p, s).symbols /\ s \in PlanSymbols(p)
<1>1. RuleFor(p, s) \subseteq Nat
  BY DEF RuleFor
<1>2. \E i \in RuleFor(p, s) : \A j \in RuleFor(p, s) : i <= j
  BY <1>1, LeastExists
<1> DEFINE first == CHOOSE i \in RuleFor(p, s) : \A j \in RuleFor(p, s) : i <= j
<1>3. first \in RuleFor(p, s)
  BY <1>2
<1>4. FirstRule(p, s) = p.rules[first]
  BY DEF FirstRule
<1> HIDE DEF first
<1>5. QED
  BY <1>3, <1>4 DEF RuleFor, RulesOf, PlanSymbols

\* A sale that passed its preflight asks for no more than is held.
LEMMA PreflightBacks ==
  ASSUME answers \in Markets, NEW f, NEW s \in Symbols,
         \A i \in DOMAIN f.plan.rules : i \in Nat /\ f.plan.rules[i].value \in Int,
         SellsQuantity(f, s), \E t \in Symbols : answers[t].held > 0, NEW capture,
         PlanStatus(f.plan, f.side, s) = "ready",
         Preflight(f.plan, s, answers, Held, capture, f.drop).status = "ready"
  PROVE  Backed(f, s)
<1> DEFINE targets == IF s = "" THEN PlanSymbols(f.plan) ELSE {s}
           unheld == Unheld(f.plan, targets, Held)
<1>1. f.plan.side = "sell"
  BY DEF SellsQuantity, PlanStatus
<1>2. /\ FirstRule(f.plan, s) \in RulesOf(f.plan) /\ s \in FirstRule(f.plan, s).symbols /\ s \in PlanSymbols(f.plan)
      /\ FirstRule(f.plan, s).mode = "quantity"
  BY FirstRuleIn DEF SellsQuantity
<1>3. FirstRule(f.plan, s).value \in Int
  BY <1>2 DEF RulesOf
<1>4. \A t \in Symbols : Held[t] = answers[t].held /\ Held[t] \in Nat
  BY SchedulesAssumption DEF Held
<1>5. DOMAIN Held = Symbols
  BY DEF Held
<1>6. s \in targets
  BY <1>2
<1> HIDE DEF targets
<1>7. unheld = {}
  <2>1. CASE {t \in targets : AlphaError(f.plan, answers[t])} = {}
    BY <2>1 DEF Preflight, targets
  <2>2. CASE {t \in targets : AlphaError(f.plan, answers[t])} # {}
    BY <2>2 DEF Preflight, targets
  <2>3. QED
    BY <2>1, <2>2
<1>8. ~(\A t \in DOMAIN Held : Held[t] = 0)
  BY <1>4, <1>5
<1>9. /\ {t \in targets : Held[t] = 0} = {}
      /\ {t \in PlanSymbols(f.plan) : Held[t] > 0 /\ \E rule \in RulesOf(f.plan) :
            t \in rule.symbols /\ rule.mode = "quantity" /\ rule.value > Held[t]} = {}
  BY <1>1, <1>7, <1>8 DEF Unheld
<1>10. Held[s] > 0
  BY <1>4, <1>6, <1>9
<1>11. ~(FirstRule(f.plan, s).value > Held[s])
  BY <1>2, <1>9, <1>10
<1>12. QED
  BY <1>3, <1>4, <1>11 DEF Backed

LEMMA PreflightedKeeps ==
  ASSUME ScheduleIInv, NEW r \in Requests, NEW s \in Symbols, NEW readable \in BOOLEAN, Preflighted(r, s, readable)
  PROVE  ScheduleIInv'
<1> DEFINE f == F(r)
           held == IF readable THEN Held ELSE [t \in Symbols |-> 0]
           asked == IF f.kind = "drop" THEN WithTrigger(f.plan, s) ELSE f.plan
           verdict == Preflight(asked, s, answers, held, f.base = "capture" /\ f.kind # "drop", f.drop)
           passed == PlanStatus(f.plan, f.side, s) = "ready" /\ verdict.status = "ready"
           moved == [TaskOf(r, s) EXCEPT !.at = AfterPreflight(f)]
<1>1. /\ At(r, s, {"preflight"}) /\ answers' = answers /\ rows' = rows
      /\ Works(r, s, IF passed THEN moved ELSE Failed(r, s, "preflight"), readable)
  BY DEF Preflighted
<1>2. /\ Working(r, s) /\ job[r].stage = "running" /\ TaskOf(r, s).at = "preflight" /\ f.kind # "refresh"
      /\ RowFields(Work(r, s)) /\ Work(r, s).symbol = s /\ Work(r, s).form = job[r].form
      /\ TaskFields(TaskOf(r, s)) /\ TaskOf(r, s).tries \in Nat
  BY <1>1, AtWork DEF Ended
<1>3. CASE ~passed
  <2>1. TaskFits(r, s, Failed(r, s, "preflight")) /\ Failed(r, s, "preflight").at \notin Late
    BY <1>2, FailFits DEF Late
  <2>2. Works(r, s, Failed(r, s, "preflight"), readable)
    BY <1>1, <1>3
  <2>3. QED
    BY <1>1, <1>2, <2>1, <2>2, StepKeeps
<1>4. CASE passed
  <2>1. Works(r, s, moved, readable)
    BY <1>1, <1>4
  <2>2. TaskFields(moved) /\ moved.tries = TaskOf(r, s).tries /\ moved.at = AfterPreflight(f) /\ moved.row = Work(r, s)
    BY <1>2 DEF TaskFields, Work, TaskOf
  <2>3. moved.at \in {"checks", "baseline"}
    BY <2>2 DEF AfterPreflight
  <2>4. TaskFits(r, s, moved)
    BY <1>2, <2>2, <2>3 DEF TaskFits
  <2>5. ASSUME Counting(f, s), readable
        PROVE  Backed(f, s)
    <3>1. \A i \in DOMAIN f.plan.rules : i \in Nat /\ f.plan.rules[i].value \in Int
      BY <1>2, FormFacts DEF ScheduleIInv
    <3>2. held = Held /\ asked = f.plan
      BY <2>5 DEF Counting
    <3>3. PlanStatus(f.plan, f.side, s) = "ready"
          /\ Preflight(f.plan, s, answers, Held, f.base = "capture" /\ f.kind # "drop", f.drop).status = "ready"
      BY <1>4, <3>2
    <3>4. answers \in Markets /\ SellsQuantity(f, s) /\ \E t \in Symbols : answers[t].held > 0
      BY <2>5 DEF Counting, ScheduleIInv
    <3> HIDE DEF f
    <3>5. QED
      BY <3>1, <3>3, <3>4, PreflightBacks
  <2> HIDE DEF moved
  <2>6. QED
    BY <1>1, <1>2, <2>1, <2>4, <2>5, StepKeeps
<1>5. QED
  BY <1>3, <1>4

LEMMA ReferencedKeeps ==
  ASSUME ScheduleIInv, NEW r \in Requests, NEW s \in Symbols, Referenced(r, s)
  PROVE  ScheduleIInv'
<1> DEFINE f == F(r)
           rest == IF f.kind = "drop" THEN "flushed" ELSE "snapshot"
           bare == [Work(r, s) EXCEPT !.shown = {}]
           full == Captured(r, s, CaptureReferences(ReferenceFields(f.plan, s), answers[s]))
<1>1. At(r, s, {"references"}) /\ f.kind # "refresh" /\ answers' = answers /\ rows' = rows
  BY DEF Referenced
<1>2. /\ Working(r, s) /\ job[r].stage = "running" /\ TaskOf(r, s).at = "references"
      /\ RowFields(Work(r, s)) /\ Work(r, s).symbol = s /\ Work(r, s).form = job[r].form
  BY <1>1, AtWork DEF Ended
<1>3. RowFields(bare) /\ bare.symbol = s /\ bare.form = job[r].form
  BY <1>2 DEF RowFields
<1>4. RowFields(full) /\ full.symbol = s /\ full.form = job[r].form
  BY <1>2 DEF RowFields, Captured
<1>5. Refuse(r, s, "data") \/ Step(r, s, rest, bare) \/ Step(r, s, rest, full)
  BY DEF Referenced
<1>6. rest \in {"flushed", "snapshot"} /\ (rest = "snapshot" => f.kind # "drop")
  OBVIOUS
<1>7. TaskOf(r, s).at \in Late
  BY <1>2 DEF Late
<1> HIDE DEF rest, bare, full
<1>8. QED
  BY <1>1, <1>2, <1>3, <1>4, <1>5, <1>6, <1>7, RefuseKeeps, AdvanceKeeps

\* The row a refresh commits: the references of the table, in both places or in one.
LEMMA RefreshedRow ==
  ASSUME NEW now, RowFields(now), NEW read, NEW changed, NEW mine, NEW r
  PROVE  LET entry == Copied(Fresh(now, read, changed, r), read, mine) IN
         /\ RowFields(entry) /\ entry.symbol = now.symbol /\ entry.qty = now.qty
         /\ entry.edited = now.edited /\ entry.price = now.price
         /\ entry.refs = Over(now.refs, changed) /\ entry.captured = now.captured
         /\ entry.refreshed = now.refreshed \cup {r} /\ entry.overtaken = (now.refreshed # read.refreshed)
         /\ mine = read.shown => /\ entry.shown = now.shown /\ entry.form = now.form
                                 /\ entry.literal = now.literal /\ entry.key = now.key
         /\ mine # read.shown => /\ entry.shown = mine /\ entry.form = read.form
                                 /\ entry.literal = read.literal /\ entry.key = read.key
<1> DEFINE fresh == Fresh(now, read, changed, r)
<1>1. /\ RowFields(fresh) /\ fresh.symbol = now.symbol /\ fresh.qty = now.qty /\ fresh.edited = now.edited /\ fresh.price = now.price
      /\ fresh.refs = Over(now.refs, changed) /\ fresh.captured = now.captured
      /\ fresh.refreshed = now.refreshed \cup {r} /\ fresh.overtaken = (now.refreshed # read.refreshed)
      /\ fresh.shown = now.shown /\ fresh.form = now.form /\ fresh.literal = now.literal /\ fresh.key = now.key
  BY DEF Fresh, RowFields
<1> HIDE DEF fresh
<1>2. CASE mine = read.shown
  BY <1>1, <1>2 DEF Copied, fresh
<1>3. CASE mine # read.shown
  <2> DEFINE entry == [fresh EXCEPT !.shown = mine, !.form = read.form, !.literal = read.literal, !.key = read.key]
  <2>1. Copied(fresh, read, mine) = entry
    BY <1>3 DEF Copied
  <2>2. /\ RowFields(entry) /\ entry.symbol = fresh.symbol /\ entry.qty = fresh.qty /\ entry.edited = fresh.edited
        /\ entry.refs = fresh.refs /\ entry.captured = fresh.captured /\ entry.refreshed = fresh.refreshed
        /\ entry.overtaken = fresh.overtaken /\ entry.price = fresh.price
        /\ entry.shown = mine /\ entry.form = read.form /\ entry.literal = read.literal /\ entry.key = read.key
    BY <1>1 DEF RowFields
  <2> HIDE DEF entry
  <2>3. QED
    BY <1>1, <1>3, <2>1, <2>2 DEF fresh
<1>4. QED
  BY <1>2, <1>3

\* What a refresh does: it is refused, or commits the order it read.
LEMMA RefreshedDoes ==
  ASSUME NEW r, NEW s, Refreshed(r, s)
  PROVE  /\ At(r, s, {"references"}) /\ F(r).kind = "refresh" /\ UNCHANGED <<answers, events>>
         /\ \/ \E error : Refuse(r, s, error) /\ rows' = rows
            \/ /\ Step(r, s, "done", NoRow) /\ ~Locked(r, s)
               /\ rows[job[r].target].captured = Work(r, s).captured
               /\ \E fields, q :
                    /\ fields \subseteq Pairs(Work(r, s).refs) /\ \A x \in fields : x = <<x[1], x[2]>>
                    /\ LET changed == CaptureReferences(fields, q) \ Work(r, s).refs IN
                       Commit(job[r].target, Copied(Fresh(rows[job[r].target], Work(r, s), changed, r),
                                                    Work(r, s), Over(Work(r, s).refs, changed)))
<1> DEFINE read == Work(r, s)
           now == rows[job[r].target]
           chosen == {x \in read.refs : F(r).scope = {} \/ x[2] \in F(r).scope}
           fields == Pairs(chosen)
           changed == CaptureReferences(fields, answers[s]) \ read.refs
           entry == Copied(Fresh(now, read, changed, r), read, Over(read.refs, changed))
<1>1. /\ At(r, s, {"references"}) /\ F(r).kind = "refresh" /\ UNCHANGED <<answers, events>>
      /\ \/ Refuse(r, s, "data") /\ rows' = rows
         \/ Refuse(r, s, "stale") /\ rows' = rows
         \/ Step(r, s, "done", NoRow) /\ ~Locked(r, s) /\ now.captured = read.captured /\ Commit(job[r].target, entry)
  BY DEF Refreshed
<1>2. fields \subseteq Pairs(read.refs) /\ \A x \in fields : x = <<x[1], x[2]>>
  BY DEF Pairs
<1> HIDE DEF fields
<1>3. QED
  BY <1>1, <1>2

LEMMA RefreshedKeeps ==
  ASSUME ScheduleIInv, NEW r \in Requests, NEW s \in Symbols, Refreshed(r, s)
  PROVE  ScheduleIInv' /\ DOMAIN rows' = DOMAIN rows
<1> DEFINE id == job[r].target
           task == [TaskOf(r, s) EXCEPT !.at = "done", !.row = NoRow]
<1>1. /\ At(r, s, {"references"}) /\ F(r).kind = "refresh" /\ answers' = answers
      /\ \/ \E error : Refuse(r, s, error) /\ rows' = rows
         \/ /\ Works(r, s, task, TRUE)
            /\ \E read, changed, mine : Commit(id, Copied(Fresh(rows[id], read, changed, r), read, mine))
  BY RefreshedDoes DEF Step
<1>2. /\ Working(r, s) /\ job[r].stage = "running" /\ TaskFields(TaskOf(r, s)) /\ TaskOf(r, s).tries \in Nat
      /\ id \in DOMAIN rows /\ RowFields(rows[id])
  BY <1>1, AtWork DEF Ended, ScheduleIInv, RowsCommitted
<1>3. CASE \E error : Refuse(r, s, error) /\ rows' = rows
  BY <1>1, <1>2, <1>3, RefuseKeeps
<1>4. ASSUME NEW read, NEW changed, NEW mine, Works(r, s, task, TRUE),
             Commit(id, Copied(Fresh(rows[id], read, changed, r), read, mine))
      PROVE  ScheduleIInv' /\ DOMAIN rows' = DOMAIN rows
  <2> DEFINE entry == Copied(Fresh(rows[id], read, changed, r), read, mine)
  <2>1. RowFields(entry)
    BY <1>2, RefreshedRow
  <2> HIDE DEF entry
  <2>2. DOMAIN rows' = DOMAIN rows \cup {id} /\ rows'[id] = entry /\ \A i \in DOMAIN rows : i # id => rows'[i] = rows[i]
    BY <1>4 DEF Commit, entry
  <2>3. Commits(r, s, task, id)
    BY <1>1, <2>1, <2>2 DEF Commits
  <2>4. TaskFields(task) /\ task.tries = TaskOf(r, s).tries /\ task.at = "done"
    BY <1>2 DEF TaskFields
  <2> HIDE DEF task
  <2>5. TaskFits(r, s, task) /\ task.at \notin Late
    BY <1>1, <1>2, <2>4 DEF TaskFits, Ended, Late
  <2>6. ScheduleIInv'
    BY <1>1, <1>2, <1>4, <2>3, <2>5, StepKeeps
  <2>7. QED
    BY <1>2, <2>2, <2>6
<1> HIDE DEF task
<1>5. QED
  BY <1>1, <1>3, <1>4

-----------------------------------------------------------------------------
(* Commits and faults.                                                     *)

LEMMA SnapshotFacts ==
  ASSUME NEW f, NEW given, RowFields(given), NEW q, NEW readable
  PROVE  LET entry == Snapshot(f, Keyed(f, given), q, readable) IN
         /\ RowFields(entry) /\ entry.symbol = given.symbol /\ entry.form = given.form
         /\ entry.refs = given.refs /\ entry.shown = given.shown
         /\ entry.captured = given.captured /\ entry.refreshed = given.refreshed /\ entry.overtaken = given.overtaken
         /\ HasPlan(f) => entry.qty = IfGiven(EstimatedQuantity(f, given.symbol, q, readable), given.qty)
<1> DEFINE keyed == Keyed(f, given)
<1>1. /\ RowFields(keyed) /\ keyed.symbol = given.symbol /\ keyed.form = given.form
      /\ keyed.refs = given.refs /\ keyed.shown = given.shown /\ keyed.qty = given.qty
      /\ keyed.captured = given.captured /\ keyed.refreshed = given.refreshed /\ keyed.overtaken = given.overtaken
  BY DEF RowFields, Keyed
<1> HIDE DEF keyed
<1>2. QED
  BY <1>1 DEF RowFields, Snapshot, keyed

LEMMA DraftFacts ==
  ASSUME NEW f, NEW s
  PROVE  /\ RowFields(DraftOf(f, s)) /\ DraftOf(f, s).symbol = s /\ DraftOf(f, s).form = f.name
         /\ DraftOf(f, s).captured = {} /\ DraftOf(f, s).refreshed = {}
BY DEF RowFields, DraftOf, NoRow

\* The row a saved order is written to.
LEMMA SaveCommits ==
  ASSUME ScheduleIInv, NEW r \in Requests, NEW s \in Symbols, At(r, s, {"snapshot"}), NEW readable,
         Commit(RowId(r, s), Snapshot(F(r), Keyed(F(r), Work(r, s)), answers[s], readable)),
         NEW task, task.at \in Ended \/ TaskOf(r, s).tries < task.tries
  PROVE  Commits(r, s, task, RowId(r, s))
<1> DEFINE entry == Snapshot(F(r), Keyed(F(r), Work(r, s)), answers[s], readable)
           id == RowId(r, s)
<1>1. /\ F(r).kind \notin {"refresh", "drop"}
      /\ RowFields(Work(r, s)) /\ Work(r, s).symbol = s /\ Work(r, s).form = job[r].form
  BY AtWork DEF Ended
<1>2. RowFields(entry)
  BY <1>1, SnapshotFacts
<1>3. /\ DOMAIN rows' = DOMAIN rows \cup {id} /\ rows'[id] = entry
      /\ \A i \in DOMAIN rows : i # id => rows'[i] = rows[i]
  BY DEF Commit
<1> HIDE DEF entry
<1>5. \/ id = <<r, s, TaskOf(r, s).tries>> /\ F(r).kind \notin {"edit", "refresh", "drop"}
      \/ id = job[r].target /\ F(r).kind = "edit"
  BY <1>1 DEF RowId, TaskOf
<1> HIDE DEF id
<1>6. RowFields(rows'[id])
  BY <1>2, <1>3
<1>7. QED
  BY <1>3, <1>5, <1>6 DEF Commits, id

LEMMA SavedKeeps ==
  ASSUME ScheduleIInv, NEW r \in Requests, NEW s \in Symbols, NEW readable \in BOOLEAN, Saved(r, s, readable)
  PROVE  ScheduleIInv'
<1> DEFINE task == [TaskOf(r, s) EXCEPT !.at = "done", !.row = NoRow]
<1>1. /\ At(r, s, {"snapshot"}) /\ answers' = answers /\ Works(r, s, task, readable)
      /\ Commit(RowId(r, s), Snapshot(F(r), Keyed(F(r), Work(r, s)), answers[s], readable))
  BY DEF Saved
<1>2. /\ Working(r, s) /\ job[r].stage = "running" /\ TaskFields(TaskOf(r, s)) /\ TaskOf(r, s).tries \in Nat
  BY <1>1, AtWork DEF Ended
<1>3. TaskFields(task) /\ task.tries = TaskOf(r, s).tries /\ task.at = "done"
  BY <1>2 DEF TaskFields
<1> HIDE DEF task
<1>4. TaskFits(r, s, task) /\ task.at \notin Late /\ task.at \in Ended
  BY <1>2, <1>3 DEF TaskFits, Ended, Late
<1>5. Commits(r, s, task, RowId(r, s))
  BY <1>1, <1>4, SaveCommits
<1>6. QED
  BY <1>1, <1>2, <1>4, <1>5, StepKeeps

\* A call that failed leaves a task that fits its request: tried again, stray or failed.
LEMMA FaultFits ==
  ASSUME ScheduleIInv, NEW r \in Requests, NEW s \in Symbols,
         At(r, s, {"preflight", "baseline", "checks", "references", "snapshot"}), NEW transient
  PROVE  /\ TaskFits(r, s, AfterFault(r, s, transient))
         /\ AfterFault(r, s, transient).at \in Late => F(r).kind = "batch"
         /\ TaskOf(r, s).at = "snapshot" =>
              \/ AfterFault(r, s, transient).at \in Ended
              \/ TaskOf(r, s).tries < AfterFault(r, s, transient).tries
<1> DEFINE task == TaskOf(r, s)
           again == [task EXCEPT !.at = "baseline", !.tries = task.tries + 1, !.row = DraftOf(F(r), s)]
           stray == [task EXCEPT !.at = "stray", !.error = "fault"]
           after == AfterFault(r, s, transient)
<1>1. /\ Working(r, s) /\ job[r].stage = "running" /\ TaskFields(task) /\ task.tries \in Nat
      /\ F(r).kind # "refresh" => RowFields(Work(r, s)) /\ Work(r, s).symbol = s /\ Work(r, s).form = job[r].form
  BY AtWork DEF Ended
<1>2. \/ F(r).kind = "batch" /\ after = again
      \/ F(r).kind = "drop" /\ task.at = "references" /\ after = stray
      \/ after = Failed(r, s, "fault")
  BY DEF AfterFault
<1>3. CASE F(r).kind = "batch" /\ after = again
  <2>1. TaskFields(again) /\ again.at = "baseline" /\ again.tries = task.tries + 1 /\ again.row = DraftOf(F(r), s)
    BY <1>1 DEF TaskFields
  <2>2. F(r).name = job[r].form
    BY <1>1, FormFacts DEF ScheduleIInv
  <2>3. RowFields(again.row) /\ again.row.symbol = s /\ again.row.form = job[r].form
    BY <2>1, <2>2, DraftFacts
  <2> HIDE DEF again, task
  <2>4. TaskFits(r, s, again)
    BY <1>1, <1>3, <2>1, <2>3 DEF TaskFits, task
  <2>5. task.tries < again.tries
    BY <1>1, <2>1
  <2>6. QED
    BY <1>3, <2>4, <2>5 DEF task
<1>4. CASE F(r).kind = "drop" /\ task.at = "references" /\ after = stray
  <2>1. TaskFields(stray) /\ stray.at = "stray" /\ stray.tries = task.tries /\ stray.row = Work(r, s)
    BY <1>1 DEF TaskFields, Work, TaskOf
  <2> HIDE DEF stray
  <2>2. TaskFits(r, s, stray)
    BY <1>1, <1>4, <2>1 DEF TaskFits
  <2>3. QED
    BY <1>4, <2>1, <2>2 DEF Late
<1>5. CASE after = Failed(r, s, "fault")
  <2>1. TaskFits(r, s, after) /\ after.at = "failed"
    BY <1>1, <1>5, FailFits
  <2>2. QED
    BY <2>1 DEF Late, Ended
<1>6. QED
  BY <1>2, <1>3, <1>4, <1>5

LEMMA FaultKeeps ==
  ASSUME ScheduleIInv, NEW r \in Requests, NEW s \in Symbols, NEW transient \in BOOLEAN, Fault(r, s, transient)
  PROVE  ScheduleIInv'
<1>1. /\ At(r, s, {"preflight", "baseline", "checks", "references"}) /\ answers' = answers /\ rows' = rows
      /\ Works(r, s, AfterFault(r, s, transient), FALSE)
  BY DEF Fault
<1>2. At(r, s, {"preflight", "baseline", "checks", "references", "snapshot"})
  BY <1>1 DEF At
<1>3. Working(r, s) /\ job[r].stage = "running"
  BY <1>1, AtWork DEF Ended
<1>4. TaskFits(r, s, AfterFault(r, s, transient))
  BY <1>2, FaultFits
<1>5. QED
  BY <1>1, <1>3, <1>4, StepKeeps

LEMMA CommitFaultKeeps ==
  ASSUME ScheduleIInv, NEW r \in Requests, NEW s \in Symbols, NEW made \in BOOLEAN, CommitFault(r, s, made)
  PROVE  ScheduleIInv'
<1> DEFINE task == AfterFault(r, s, TRUE)
<1>1. /\ At(r, s, {"snapshot"}) /\ answers' = answers /\ Works(r, s, task, FALSE)
      /\ \/ rows' = rows
         \/ Commit(RowId(r, s), Snapshot(F(r), Keyed(F(r), Work(r, s)), answers[s], TRUE))
  BY DEF CommitFault
<1>2. At(r, s, {"preflight", "baseline", "checks", "references", "snapshot"})
  BY <1>1 DEF At
<1>3. Working(r, s) /\ job[r].stage = "running" /\ TaskOf(r, s).at = "snapshot"
  BY <1>1, AtWork DEF Ended
<1>4. TaskFits(r, s, task) /\ (task.at \in Ended \/ TaskOf(r, s).tries < task.tries)
  BY <1>2, <1>3, FaultFits
<1> HIDE DEF task
<1>5. rows' = rows \/ Commits(r, s, task, RowId(r, s))
  BY <1>1, <1>4, SaveCommits
<1>6. QED
  BY <1>1, <1>3, <1>4, <1>5, StepKeeps

-----------------------------------------------------------------------------
(* The steps of a whole request, and of the market.                        *)

\* What a step leaves of the other requests.
Others(r) ==
  /\ DOMAIN job' = Requests /\ \A p \in Requests : p # r => job'[p] = job[p]

LEMMA OthersKept ==
  ASSUME NEW r \in Requests, Others(r), NEW p \in Requests, p # r
  PROVE  /\ F(p)' = F(p)
         /\ \A s \in Symbols : TaskOf(p, s)' = TaskOf(p, s) /\ Work(p, s)' = Work(p, s) /\ Working(p, s)' = Working(p, s)
         /\ \A s \in Symbols : At(p, s, Late)' = At(p, s, Late)
<1>1. job'[p] = job[p]
  BY DEF Others
<1>2. QED
  BY <1>1 DEF F, TaskOf, Work, Working, At

\* Rows of other requests stay what they were.
LEMMA OthersRows ==
  ASSUME ScheduleIInv, NEW r \in Requests, Others(r), NEW id \in DOMAIN rows, id[1] # r
  PROVE  Identified(id)' /\ RowFields(rows[id])
<1>1. Identified(id) /\ RowFields(rows[id])
  BY DEF ScheduleIInv, RowsCommitted
<1>2. id[1] \in Requests /\ job'[id[1]] = job[id[1]]
  BY <1>1 DEF Identified, Others
<1>3. Identified(id)'
  BY <1>1, <1>2 DEF Identified, F, TaskOf
<1>4. QED
  BY <1>1, <1>3

\* A request that is not at work afterwards, or whose tasks fit, keeps the invariant.
LEMMA RequestKeeps ==
  ASSUME ScheduleIInv, answers' = answers, NEW r \in Requests, Others(r), JobShape', RowsCommitted',
         <<>> \notin DOMAIN rows', \A i \in DOMAIN rows : i \in DOMAIN rows' /\ rows'[i] = rows[i],
         IF job'[r].stage # "idle" /\ F(r)'.kind \in {"edit", "refresh"} THEN job'[r].target \in DOMAIN rows'
           ELSE job'[r].target = <<>>,
         \A s \in Symbols : Working(r, s)' =>
           IF F(r)'.kind = "refresh"
           THEN RowFields(Work(r, s)') /\ TaskOf(r, s)'.at = "references" /\ job'[r].stage = "running"
           ELSE /\ RowFields(Work(r, s)') /\ Work(r, s)'.symbol = s /\ Work(r, s)'.form = job'[r].form
                /\ TaskOf(r, s)'.at = "snapshot" => F(r)'.kind # "drop",
         \A s \in Symbols : At(r, s, Late)' => ~Counting(F(r), s)'
  PROVE  ScheduleIInv'
<1>1. answers \in Markets /\ WorkKept /\ TargetKept /\ HoldingKept
  BY DEF ScheduleIInv
<1>2. \A p \in Requests : p # r =>
        /\ job'[p] = job[p] /\ F(p)' = F(p)
        /\ \A s \in Symbols : TaskOf(p, s)' = TaskOf(p, s) /\ Work(p, s)' = Work(p, s) /\ Working(p, s)' = Working(p, s)
        /\ \A s \in Symbols : At(p, s, Late)' = At(p, s, Late)
  BY OthersKept DEF Others
<1>3. WorkKept'
  <2> SUFFICES ASSUME NEW p \in Requests, NEW s \in Symbols, Working(p, s)', F(p)'.kind # "refresh"
               PROVE  /\ RowFields(Work(p, s)') /\ Work(p, s)'.symbol = s /\ Work(p, s)'.form = job'[p].form
                      /\ TaskOf(p, s)'.at = "snapshot" => F(p)'.kind # "drop"
    BY DEF WorkKept, RowFields
  <2>1. CASE p = r
    BY <2>1
  <2>2. CASE p # r
    BY <1>1, <1>2, <2>2 DEF WorkKept
  <2>3. QED
    BY <2>1, <2>2
<1>4. TargetKept'
  <2>1. \A p \in Requests :
          IF job'[p].stage # "idle" /\ F(p)'.kind \in {"edit", "refresh"} THEN job'[p].target \in DOMAIN rows'
          ELSE job'[p].target = <<>>
    BY <1>1, <1>2 DEF TargetKept
  <2>2. ASSUME NEW p \in Requests, NEW s \in Symbols, Working(p, s)', F(p)'.kind = "refresh"
        PROVE  RowFields(Work(p, s)') /\ TaskOf(p, s)'.at = "references" /\ job'[p].stage = "running"
    <3>1. CASE p = r
      BY <2>2, <3>1
    <3>2. CASE p # r
      BY <1>1, <1>2, <2>2, <3>2 DEF TargetKept
    <3>3. QED
      BY <3>1, <3>2
  <2>3. QED
    BY <2>1, <2>2 DEF TargetKept, RowFields
<1>5. HoldingKept'
  <2> SUFFICES ASSUME NEW p \in Requests, NEW s \in Symbols, At(p, s, Late)', Counting(F(p), s)', job'[p].steady
               PROVE  Backed(F(p), s)'
    BY DEF HoldingKept, Late, Counting, Backed
  <2>1. p # r /\ job'[p] = job[p] /\ F(p)' = F(p) /\ At(p, s, Late)
    BY <1>2
  <2>2. Counting(F(p), s) /\ (Backed(F(p), s) => Backed(F(p), s)')
    BY <2>1 DEF Counting, Backed
  <2>3. QED
    BY <1>1, <2>1, <2>2 DEF HoldingKept, Late, Counting, Backed
<1>6. QED
  BY <1>1, <1>3, <1>4, <1>5 DEF ScheduleIInv

\* A request that is idle, still before its symbols, or a drop batch at work owns no row.
LEMMA NoRowYet ==
  ASSUME ScheduleIInv, NEW r \in Requests,
         job[r].stage \in {"idle", "preflight"} \/ (job[r].stage = "running" /\ F(r).kind = "drop")
  PROVE  \A id \in DOMAIN rows : id[1] # r
BY DEF ScheduleIInv, RowsCommitted, Identified

LEMMA BeginKeeps ==
  ASSUME ScheduleIInv, NEW r \in Requests, NEW name \in DOMAIN Forms, NEW target, Begin(r, Forms[name], target)
  PROVE  ScheduleIInv'
<1> DEFINE f == Forms[name]
           first(s) == [NewTask EXCEPT !.at = FirstStage(f), !.row = IF f.kind = "refresh" THEN rows[target] ELSE DraftOf(f, s)]
           tasks == [s \in Symbols |->
             IF s \notin f.symbols THEN NewTask
             ELSE IF RefusedAtOnce(f, s, target) THEN [NewTask EXCEPT !.at = "failed", !.error = "form"]
             ELSE first(s)]
           j == [stage |-> IF f.kind = "batch" /\ NeedsPreflight(f) THEN "preflight" ELSE "running",
                 form |-> f.name, target |-> target, saw |-> DOMAIN rows, steady |-> TRUE, task |-> tasks]
<1>1. /\ job[r].stage = "idle" /\ answers' = answers /\ rows' = rows /\ job' = [job EXCEPT ![r] = j]
      /\ IF f.kind \in {"edit", "refresh"} THEN target \in Targets(f) ELSE target = <<>>
  BY DEF Begin
<1>2. JobShape /\ <<>> \notin DOMAIN rows /\ DOMAIN job = Requests
  BY DEF ScheduleIInv, JobShape, TargetKept
<1>3. f.name = name /\ Forms[f.name] = f /\ f.name \in DOMAIN Forms
  BY SchedulesAssumption
<1>4. \A s \in Symbols : TaskFields(first(s)) /\ first(s).tries = 1 /\ first(s).at = FirstStage(f)
        /\ first(s).row = IF f.kind = "refresh" THEN rows[target] ELSE DraftOf(f, s)
  BY DEF TaskFields, NewTask
<1> HIDE DEF first
<1>5. /\ DOMAIN tasks = Symbols
      /\ \A s \in Symbols : /\ TaskFields(tasks[s]) /\ tasks[s].tries = 1
                            /\ tasks[s].at \notin {"queued", "failed"} => tasks[s] = first(s)
                            /\ s \in f.symbols => tasks[s].at = "failed" \/ tasks[s] = first(s)
  <2>1. TaskFields(NewTask) /\ NewTask.tries = 1 /\ NewTask.at = "queued"
    BY DEF TaskFields, NewTask
  <2>2. TaskFields([NewTask EXCEPT !.at = "failed", !.error = "form"])
        /\ [NewTask EXCEPT !.at = "failed", !.error = "form"].tries = 1
        /\ [NewTask EXCEPT !.at = "failed", !.error = "form"].at = "failed"
    BY DEF TaskFields, NewTask
  <2>3. QED
    BY <1>4, <2>1, <2>2
<1> HIDE DEF tasks
<1>6. /\ JobFields(j) /\ j.form = f.name /\ j.target = target /\ j.steady = TRUE /\ j.task = tasks
      /\ j.stage \in {"preflight", "running"} /\ (j.stage = "preflight" => f.kind = "batch")
  BY DEF JobFields
<1> HIDE DEF j
<1>7. Others(r) /\ job'[r] = j
  BY <1>1, <1>2 DEF Others
<1>8. F(r)' = f
  BY <1>3, <1>6, <1>7 DEF F, FormOf
<1>9. \A s \in Symbols : TaskOf(r, s)' = tasks[s] /\ Work(r, s)' = tasks[s].row
  BY <1>6, <1>7 DEF TaskOf, Work
<1>10. JobShape'
  <2> SUFFICES ASSUME NEW p \in Requests
               PROVE /\ JobFields(job'[p]) /\ DOMAIN job'[p].task = Symbols
                     /\ job'[p].steady \in BOOLEAN
                     /\ \A s \in Symbols : TaskFields(TaskOf(p, s)') /\ TaskOf(p, s)'.tries \in Nat
                     /\ job'[p].stage \in {"idle", "preflight", "running", "done"}
                     /\ job'[p].stage # "idle" => job'[p].form \in DOMAIN Forms
                     /\ job'[p].stage = "preflight" => F(p)'.kind = "batch"
    BY <1>7 DEF JobShape, Others, JobFields, TaskFields
  <2>1. CASE p = r
    <3>1. JobFields(job'[r]) /\ DOMAIN job'[r].task = Symbols /\ job'[r].form \in DOMAIN Forms
      BY <1>3, <1>5, <1>6, <1>7
    <3>2. job'[r].steady \in BOOLEAN
      BY <1>6, <1>7
    <3>3. \A s \in Symbols : TaskFields(TaskOf(r, s)') /\ TaskOf(r, s)'.tries \in Nat
      BY <1>5, <1>9
    <3>4. job'[r].stage \in {"preflight", "running"} /\ (job'[r].stage = "preflight" => F(r)'.kind = "batch")
      BY <1>6, <1>7, <1>8
    <3>5. QED
      BY <2>1, <3>1, <3>2, <3>3, <3>4
  <2>2. CASE p # r
    BY <1>2, <1>7, <2>2 DEF JobShape, Others, F, TaskOf
  <2>3. QED
    BY <2>1, <2>2
<1>11. \A id \in DOMAIN rows : id[1] # r
  BY <1>1, NoRowYet
<1>12. RowsCommitted'
  BY <1>1, <1>7, <1>11, OthersRows DEF RowsCommitted, RowFields
<1>13. IF f.kind \in {"edit", "refresh"} THEN target \in DOMAIN rows ELSE target = <<>>
  BY <1>1 DEF Targets
<1>15. \A s \in Symbols : Working(r, s)' => s \in f.symbols /\ tasks[s] = first(s)
  BY <1>5, <1>8, <1>9 DEF Working, Ended
<1>16. ASSUME NEW s \in Symbols, Working(r, s)'
       PROVE  IF f.kind = "refresh"
              THEN RowFields(Work(r, s)') /\ TaskOf(r, s)'.at = "references" /\ job'[r].stage = "running"
              ELSE /\ RowFields(Work(r, s)') /\ Work(r, s)'.symbol = s /\ Work(r, s)'.form = job'[r].form
                   /\ TaskOf(r, s)'.at \notin {"snapshot", "flushed"}
  <2>1. CASE f.kind = "refresh"
    <3>1. FirstStage(f) = "references"
      BY <2>1 DEF FirstStage
    <3>2. Work(r, s)' = rows[target] /\ TaskOf(r, s)'.at = "references"
      BY <1>4, <1>9, <1>15, <1>16, <2>1, <3>1
    <3>3. job'[r].stage = "running"
      BY <1>6, <1>7, <2>1
    <3>4. RowFields(rows[target])
      BY <1>13, <2>1 DEF ScheduleIInv, RowsCommitted
    <3>5. QED
      BY <2>1, <3>2, <3>3, <3>4
  <2>2. CASE f.kind # "refresh"
    <3>1. FirstStage(f) \in {"queued", "baseline", "preflight"}
      BY <2>2 DEF FirstStage
    <3>2. Work(r, s)' = DraftOf(f, s) /\ TaskOf(r, s)'.at = FirstStage(f)
      BY <1>4, <1>9, <1>15, <1>16, <2>2
    <3>3. QED
      BY <1>6, <1>7, <2>2, <3>1, <3>2, DraftFacts
  <2>3. QED
    BY <2>1, <2>2
<1>17. ASSUME NEW s \in Symbols, At(r, s, Late)', Counting(F(r), s)' PROVE FALSE
  <2>1. s \in f.symbols /\ tasks[s].at \in Late
    BY <1>6, <1>7, <1>8, <1>9, <1>17 DEF At, TaskOf
  <2>2. tasks[s].at = FirstStage(f)
    BY <1>4, <1>5, <2>1 DEF Late
  <2>3. f.kind \in {"create", "add"} /\ NeedsPreflight(f)
    BY <1>8, <1>17 DEF Counting, SellsQuantity
  <2>4. QED
    BY <2>1, <2>2, <2>3 DEF FirstStage, Late
<1>18. QED
  <2>1. rows' = rows /\ answers' = answers /\ job'[r].target = target
    BY <1>1, <1>6, <1>7
  <2>2. \A s \in Symbols : Working(r, s)' =>
          IF F(r)'.kind = "refresh"
          THEN RowFields(Work(r, s)') /\ TaskOf(r, s)'.at = "references" /\ job'[r].stage = "running"
          ELSE /\ RowFields(Work(r, s)') /\ Work(r, s)'.symbol = s /\ Work(r, s)'.form = job'[r].form
               /\ TaskOf(r, s)'.at = "snapshot" => F(r)'.kind # "drop"
    BY <1>8, <1>16, <2>1
  <2>3. \A s \in Symbols : At(r, s, Late)' => ~Counting(F(r), s)'
    BY <1>17
  <2>4. IF job'[r].stage # "idle" /\ F(r)'.kind \in {"edit", "refresh"} THEN job'[r].target \in DOMAIN rows'
        ELSE job'[r].target = <<>>
    BY <1>6, <1>7, <1>8, <1>13, <2>1
  <2>5. QED
    BY <1>2, <1>7, <1>10, <1>12, <2>1, <2>2, <2>3, <2>4, RequestKeeps

LEMMA BatchPreflightedKeeps ==
  ASSUME ScheduleIInv, NEW r \in Requests, BatchPreflighted(r)
  PROVE  ScheduleIInv'
<1> DEFINE gate == PlanStatus(F(r).plan, F(r).side, "")
           verdict == IF gate # "ready" THEN [status |-> gate, named |-> {}]
                      ELSE Preflight(F(r).plan, "", answers, Held, FALSE, F(r).drop)
           blamed == IF verdict.named = {} THEN F(r).symbols ELSE F(r).symbols \cap verdict.named
           error == verdict.status
<1>1. /\ job[r].stage = "preflight" /\ answers' = answers /\ rows' = rows
      /\ \/ job' = [job EXCEPT ![r].stage = "running"]
         \/ job' = [job EXCEPT ![r].stage = "done",
               ![r].task = [s \in Symbols |-> IF s \in blamed THEN Failed(r, s, error) ELSE TaskOf(r, s)]]
  <2>1. /\ job[r].stage = "preflight" /\ answers' = answers /\ rows' = rows
        /\ job' = IF verdict.status = "ready" THEN [job EXCEPT ![r].stage = "running"]
                  ELSE [job EXCEPT ![r].stage = "done",
                         ![r].task = [s \in Symbols |-> IF s \in blamed THEN Failed(r, s, error) ELSE TaskOf(r, s)]]
    BY DEF BatchPreflighted
  <2> HIDE DEF verdict, blamed, error
  <2>2. CASE verdict.status = "ready"
    BY <2>1, <2>2
  <2>3. CASE verdict.status # "ready"
    BY <2>1, <2>3
  <2>4. QED
    BY <2>2, <2>3
<1> HIDE DEF verdict, blamed, error
<1>2. JobShape /\ <<>> \notin DOMAIN rows /\ DOMAIN job = Requests /\ JobFields(job[r]) /\ F(r).kind = "batch"
  BY <1>1 DEF ScheduleIInv, JobShape, TargetKept
<1>3. /\ \A s \in Symbols : TaskFields(TaskOf(r, s)) /\ TaskOf(r, s).tries \in Nat
      /\ job[r].steady \in BOOLEAN /\ job[r].form \in DOMAIN Forms /\ DOMAIN job[r].task = Symbols
      /\ job[r].target = <<>>
  BY <1>1, <1>2 DEF JobShape, ScheduleIInv, TargetKept
<1>4. PICK j : /\ job' = [job EXCEPT ![r] = j] /\ JobFields(j) /\ DOMAIN j.task = Symbols
               /\ j.form = job[r].form /\ j.target = job[r].target /\ j.steady = job[r].steady
               /\ \A s \in Symbols : TaskFields(j.task[s]) /\ j.task[s].tries = TaskOf(r, s).tries
               /\ \/ j.stage = "running" /\ j.task = job[r].task
                  \/ j.stage = "done"
  <2>1. CASE job' = [job EXCEPT ![r].stage = "running"]
    <3> DEFINE j == [job[r] EXCEPT !.stage = "running"]
    <3>1. job' = [job EXCEPT ![r] = j]
      BY <2>1
    <3>2. /\ JobFields(j) /\ j.form = job[r].form /\ j.target = job[r].target /\ j.steady = job[r].steady
          /\ j.stage = "running" /\ j.task = job[r].task
      BY <1>2 DEF JobFields
    <3> HIDE DEF j
    <3>3. QED
      BY <1>3, <3>1, <3>2 DEF TaskOf
  <2>2. CASE job' = [job EXCEPT ![r].stage = "done",
               ![r].task = [s \in Symbols |-> IF s \in blamed THEN Failed(r, s, error) ELSE TaskOf(r, s)]]
    <3> DEFINE tasks == [s \in Symbols |-> IF s \in blamed THEN Failed(r, s, error) ELSE TaskOf(r, s)]
    <3>1. DOMAIN tasks = Symbols /\ \A s \in Symbols : TaskFields(tasks[s]) /\ tasks[s].tries = TaskOf(r, s).tries
      <4>1. \A s \in Symbols : TaskFields(Failed(r, s, error)) /\ Failed(r, s, error).tries = TaskOf(r, s).tries
        BY <1>3 DEF TaskFields, Failed
      <4>2. QED
        BY <1>3, <4>1
    <3> HIDE DEF tasks
    <3> DEFINE j == [job[r] EXCEPT !.stage = "done", !.task = tasks]
    <3>2. job' = [job EXCEPT ![r] = j]
      BY <2>2 DEF tasks
    <3>3. /\ JobFields(j) /\ j.form = job[r].form /\ j.target = job[r].target /\ j.steady = job[r].steady
          /\ j.stage = "done" /\ j.task = tasks
      BY <1>2 DEF JobFields
    <3> HIDE DEF j
    <3>4. QED
      BY <3>1, <3>2, <3>3
  <2>3. QED
    BY <1>1, <2>1, <2>2
<1>5. Others(r) /\ job'[r] = j /\ F(r)' = F(r)
  BY <1>2, <1>4 DEF Others, F
<1>6. JobShape'
  <2> SUFFICES ASSUME NEW p \in Requests
               PROVE /\ JobFields(job'[p]) /\ DOMAIN job'[p].task = Symbols
                     /\ job'[p].steady \in BOOLEAN
                     /\ \A s \in Symbols : TaskFields(TaskOf(p, s)') /\ TaskOf(p, s)'.tries \in Nat
                     /\ job'[p].stage \in {"idle", "preflight", "running", "done"}
                     /\ job'[p].stage # "idle" => job'[p].form \in DOMAIN Forms
                     /\ job'[p].stage = "preflight" => F(p)'.kind = "batch"
    BY <1>5 DEF JobShape, Others, JobFields, TaskFields
  <2>1. CASE p = r
    <3>1. \A s \in Symbols : TaskOf(r, s)' = j.task[s]
      BY <1>5 DEF TaskOf
    <3>2. QED
      BY <1>2, <1>3, <1>4, <1>5, <2>1, <3>1
  <2>2. CASE p # r
    BY <1>2, <1>5, <2>2 DEF JobShape, Others, F, TaskOf
  <2>3. QED
    BY <2>1, <2>2
<1>7. RowsCommitted'
  <2>1. \A id \in DOMAIN rows : id[1] # r
    BY <1>1, NoRowYet
  <2>2. QED
    BY <1>1, <1>5, <2>1, OthersRows DEF RowsCommitted, RowFields
<1>8. ASSUME NEW s \in Symbols, Working(r, s)'
      PROVE  RowFields(Work(r, s)') /\ Work(r, s)'.symbol = s /\ Work(r, s)'.form = job'[r].form
  <2>1. j.stage = "running" /\ j.task = job[r].task
    BY <1>4, <1>5, <1>8 DEF Working
  <2>2. TaskOf(r, s)' = TaskOf(r, s) /\ Work(r, s)' = Work(r, s) /\ job'[r].form = job[r].form
    BY <1>4, <1>5, <2>1 DEF TaskOf, Work
  <2>3. Working(r, s)
    BY <1>1, <1>5, <1>8, <2>2 DEF Working
  <2>4. QED
    BY <1>2, <2>2, <2>3 DEF ScheduleIInv, WorkKept
<1>9. \A s \in Symbols : At(r, s, Late)' => ~Counting(F(r), s)'
  BY <1>2, <1>5 DEF Counting
<1>10. job'[r].target = <<>> /\ F(r)'.kind = "batch"
  BY <1>2, <1>3, <1>4, <1>5
<1>11. QED
  BY <1>1, <1>2, <1>5, <1>6, <1>7, <1>8, <1>9, <1>10, RequestKeeps

LEMMA MoveKeeps ==
  ASSUME ScheduleIInv, NEW m \in Markets, Move(m)
  PROVE  ScheduleIInv'
<1>1. answers' = m /\ rows' = rows /\ job' = [r \in Requests |-> [job[r] EXCEPT !.steady = job[r].steady /\ job[r].stage = "idle"]]
  BY DEF Move
<1>2. JobShape /\ RowsCommitted /\ WorkKept /\ TargetKept
  BY DEF ScheduleIInv
<1>3. \A r \in Requests : JobFields(job[r]) /\ job[r].steady \in BOOLEAN
  BY <1>2 DEF JobShape
<1>4. ASSUME NEW r \in Requests
      PROVE  /\ JobFields(job'[r]) /\ job'[r].steady = (job[r].steady /\ job[r].stage = "idle")
             /\ job'[r].stage = job[r].stage /\ job'[r].form = job[r].form /\ job'[r].target = job[r].target
             /\ job'[r].task = job[r].task
  <2> DEFINE j == [job[r] EXCEPT !.steady = job[r].steady /\ job[r].stage = "idle"]
  <2>1. job'[r] = j
    BY <1>1
  <2>2. /\ JobFields(j) /\ j.steady = (job[r].steady /\ job[r].stage = "idle")
        /\ j.stage = job[r].stage /\ j.form = job[r].form /\ j.target = job[r].target /\ j.task = job[r].task
    BY <1>3 DEF JobFields
  <2> HIDE DEF j
  <2>3. QED
    BY <2>1, <2>2
<1>5. \A r \in Requests : /\ F(r)' = F(r)
                          /\ \A s \in Symbols : /\ TaskOf(r, s)' = TaskOf(r, s) /\ Work(r, s)' = Work(r, s)
                                                /\ Working(r, s)' = Working(r, s)
  BY <1>4 DEF F, TaskOf, Work, Working
<1>6. JobShape'
  <2>1. DOMAIN job' = Requests
    BY <1>1
  <2>2. QED
    BY <1>2, <1>3, <1>4, <1>5, <2>1 DEF JobShape
<1>7. RowsCommitted'
  <2>1. ASSUME NEW id \in DOMAIN rows PROVE Identified(id)'
    <3>1. Identified(id) /\ id[1] \in Requests /\ id[2] \in Symbols
      BY <1>2 DEF RowsCommitted, Identified
    <3>2. job'[id[1]].stage = job[id[1]].stage /\ F(id[1])' = F(id[1]) /\ TaskOf(id[1], id[2])' = TaskOf(id[1], id[2])
      BY <1>4, <1>5, <3>1
    <3>3. Identified(id)'
      BY <3>1, <3>2 DEF Identified
    <3>4. QED
      BY <3>3
  <2>2. QED
    BY <1>1, <1>2, <2>1 DEF RowsCommitted, RowFields
<1>8. WorkKept'
  BY <1>2, <1>4, <1>5 DEF WorkKept, RowFields
<1>9. TargetKept'
  BY <1>1, <1>2, <1>4, <1>5 DEF TargetKept, RowFields
<1>10. HoldingKept'
  <2> SUFFICES ASSUME NEW r \in Requests, NEW s \in Symbols, At(r, s, Late)', job'[r].steady PROVE FALSE
    BY DEF HoldingKept, Late
  <2>1. QED
    BY <1>4 DEF At
<1>11. QED
  BY <1>1, <1>6, <1>7, <1>8, <1>9, <1>10 DEF ScheduleIInv

LEMMA DropCommitKeeps ==
  ASSUME ScheduleIInv, NEW r \in Requests, DropCommit(r)
  PROVE  ScheduleIInv'
<1> DEFINE flushed == {s \in F(r).symbols : job[r].task[s].at \in {"flushed", "stray"}}
           kept == IF \E s \in flushed : job[r].task[s].at = "flushed" THEN flushed ELSE {}
           made == {<<r, s, 1>> : s \in kept}
           released(s) == [TaskOf(r, s) EXCEPT !.row = NoRow,
                             !.at = CASE @ = "flushed" -> "done" [] @ = "stray" -> "failed" [] OTHER -> @]
           tasks == [s \in Symbols |-> released(s)]
           j == [job[r] EXCEPT !.stage = "done", !.task = tasks]
<1>1. /\ job[r].stage = "running" /\ F(r).kind = "drop" /\ answers' = answers
      /\ rows' = [id \in DOMAIN rows \cup made |-> IF id \in made THEN Work(r, id[2]) ELSE rows[id]]
      /\ job' = [job EXCEPT ![r] = j]
  BY DEF DropCommit
<1>2. JobShape /\ <<>> \notin DOMAIN rows /\ DOMAIN job = Requests /\ JobFields(job[r]) /\ F(r).symbols \subseteq Symbols
  BY <1>1, FormFacts DEF ScheduleIInv, JobShape, TargetKept
<1>3. \A s \in Symbols :
        /\ TaskFields(released(s)) /\ released(s).tries = TaskOf(r, s).tries /\ TaskOf(r, s).tries \in Nat
        /\ TaskOf(r, s).at = "stray" => released(s).at = "failed"
  BY <1>2 DEF JobShape, TaskFields
<1> HIDE DEF released
<1>4. DOMAIN tasks = Symbols /\ \A s \in Symbols : tasks[s] = released(s)
  OBVIOUS
<1> HIDE DEF tasks
<1>5. /\ JobFields(j) /\ j.form = job[r].form /\ j.target = job[r].target /\ j.steady = job[r].steady
      /\ j.stage = "done" /\ j.task = tasks
  BY <1>2 DEF JobFields
<1> HIDE DEF j
<1>6. Others(r) /\ job'[r] = j /\ F(r)' = F(r) /\ \A s \in Symbols : TaskOf(r, s)' = tasks[s]
  BY <1>1, <1>2, <1>5 DEF Others, F, TaskOf
<1>7. JobShape'
  <2> SUFFICES ASSUME NEW p \in Requests
               PROVE /\ JobFields(job'[p]) /\ DOMAIN job'[p].task = Symbols
                     /\ job'[p].steady \in BOOLEAN
                     /\ \A s \in Symbols : TaskFields(TaskOf(p, s)') /\ TaskOf(p, s)'.tries \in Nat
                     /\ job'[p].stage \in {"idle", "preflight", "running", "done"}
                     /\ job'[p].stage # "idle" => job'[p].form \in DOMAIN Forms
                     /\ job'[p].stage = "preflight" => F(p)'.kind = "batch"
    BY <1>6 DEF JobShape, Others, JobFields, TaskFields
  <2>1. CASE p = r
    <3>1. job[r].steady \in BOOLEAN /\ job[r].form \in DOMAIN Forms
      BY <1>1, <1>2 DEF JobShape
    <3>2. QED
      BY <1>3, <1>4, <1>5, <1>6, <2>1, <3>1
  <2>2. CASE p # r
    BY <1>2, <1>6, <2>2 DEF JobShape, Others, F, TaskOf
  <2>3. QED
    BY <2>1, <2>2
<1>8. \A id \in DOMAIN rows : id[1] # r
  BY <1>1, NoRowYet
<1>9. \A id \in made : id = <<r, id[2], 1>> /\ id[1] = r /\ id[3] = 1 /\ id[2] \in flushed /\ id # <<>>
  BY TripleNotEmpty
<1>10. /\ DOMAIN rows' = DOMAIN rows \cup made
       /\ \A id \in DOMAIN rows : rows'[id] = rows[id]
       /\ \A id \in made : rows'[id] = Work(r, id[2])
  BY <1>1, <1>8, <1>9
<1> HIDE DEF made, kept
<1>11. RowsCommitted'
  <2> SUFFICES ASSUME NEW id \in DOMAIN rows'
               PROVE  Identified(id)' /\ RowFields(rows'[id])
    BY DEF RowsCommitted, RowFields
  <2>1. CASE id \in DOMAIN rows
    BY <1>6, <1>8, <1>10, <2>1, OthersRows
  <2>2. CASE id \in made
    <3> DEFINE s == id[2]
    <3>1. id = <<r, s, 1>> /\ id[1] = r /\ id[3] = 1 /\ s \in Symbols /\ s \in F(r).symbols
          /\ TaskOf(r, s).at \in {"flushed", "stray"} /\ rows'[id] = Work(r, s)
      BY <1>2, <1>9, <1>10, <2>2 DEF TaskOf
    <3> HIDE DEF s
    <3>2. Working(r, s)
      BY <1>1, <3>1 DEF Working, Ended
    <3>3. RowFields(Work(r, s))
      BY <1>1, <3>1, <3>2 DEF ScheduleIInv, WorkKept
    <3>4. job'[r].stage = "done"
      BY <1>5, <1>6
    <3>5. Identified(id)'
      BY <3>1, <3>4 DEF Identified, s
    <3>6. QED
      BY <3>1, <3>3, <3>5
  <2>3. QED
    BY <1>10, <2>1, <2>2
<1>12. \A s \in Symbols : ~Working(r, s)' /\ ~At(r, s, Late)'
  BY <1>5, <1>6 DEF Working, At
<1>13. job'[r].target = <<>> /\ F(r)'.kind = "drop"
  BY <1>1, <1>5, <1>6 DEF ScheduleIInv, TargetKept
<1>14. <<>> \notin DOMAIN rows'
  BY <1>2, <1>9, <1>10
<1>15. \A i \in DOMAIN rows : i \in DOMAIN rows' /\ rows'[i] = rows[i]
  BY <1>10
<1>16. QED
  BY <1>1, <1>6, <1>7, <1>11, <1>12, <1>13, <1>14, <1>15, RequestKeeps

-----------------------------------------------------------------------------
(* Every request keeps the invariant.                                      *)

LEMMA ScheduleInductiveInit == ScheduleInit => ScheduleIInv
<1> SUFFICES ASSUME ScheduleInit PROVE ScheduleIInv
  OBVIOUS
<1>1. /\ answers \in Markets /\ DOMAIN rows = {}
      /\ DOMAIN job = Requests /\ \A r \in Requests : job[r] = NewJob
  BY SchedulesAssumption DEF ScheduleInit
<1>2. /\ JobFields(NewJob) /\ NewJob.stage = "idle" /\ NewJob.target = <<>> /\ NewJob.steady = TRUE
      /\ DOMAIN NewJob.task = Symbols /\ \A s \in Symbols : TaskFields(NewJob.task[s]) /\ NewJob.task[s].tries = 1
  BY DEF JobFields, NewJob, TaskFields, NewTask
<1> HIDE DEF NewJob
<1>3. JobShape
  <2>1. \A r \in Requests : job[r].steady \in BOOLEAN
    BY <1>1, <1>2
  <2>2. \A r \in Requests, s \in Symbols : TaskFields(TaskOf(r, s)) /\ TaskOf(r, s).tries \in Nat
    BY <1>1, <1>2 DEF TaskOf
  <2>3. \A r \in Requests : JobFields(job[r]) /\ DOMAIN job[r].task = Symbols /\ job[r].stage = "idle"
    BY <1>1, <1>2
  <2>4. QED
    BY <1>1, <2>1, <2>2, <2>3 DEF JobShape
<1>4. RowsCommitted /\ WorkKept
  BY <1>1, <1>2 DEF RowsCommitted, WorkKept, Working
<1>5. TargetKept
  BY <1>1, <1>2 DEF TargetKept, Working
<1>6. HoldingKept
  BY <1>1, <1>2 DEF HoldingKept, At
<1>7. QED
  BY <1>1, <1>3, <1>4, <1>5, <1>6 DEF ScheduleIInv

LEMMA ScheduleStutter ==
  ASSUME ScheduleIInv, UNCHANGED scheduleVars
  PROVE  ScheduleIInv'
<1>1. answers' = answers /\ rows' = rows /\ job' = job
  BY DEF scheduleVars
<1>2. \A r \in Requests :
        /\ F(r)' = F(r)
        /\ \A s \in Symbols : /\ TaskOf(r, s)' = TaskOf(r, s) /\ Work(r, s)' = Work(r, s)
                              /\ Working(r, s)' = Working(r, s) /\ At(r, s, Late)' = At(r, s, Late)
  BY <1>1 DEF F, TaskOf, Work, Working, At
<1>3. JobShape'
  BY <1>1, <1>2 DEF ScheduleIInv, JobShape
<1>4. RowsCommitted'
  BY <1>1 DEF ScheduleIInv, RowsCommitted, Identified, F, TaskOf, RowFields
<1>5. WorkKept'
  BY <1>1, <1>2 DEF ScheduleIInv, WorkKept, RowFields
<1>6. TargetKept'
  BY <1>1, <1>2 DEF ScheduleIInv, TargetKept, RowFields
<1>7. HoldingKept'
  BY <1>1 DEF ScheduleIInv, HoldingKept, At, F, SellsQuantity
<1>8. QED
  BY <1>1, <1>3, <1>4, <1>5, <1>6, <1>7 DEF ScheduleIInv

LEMMA ScheduleInductiveStep == ScheduleIInv /\ [ScheduleNext]_scheduleVars => ScheduleIInv'
<1> SUFFICES ASSUME ScheduleIInv, [ScheduleNext]_scheduleVars PROVE ScheduleIInv'
  OBVIOUS
<1>1. ASSUME NEW r \in Requests, NEW name \in DOMAIN Forms, NEW target \in DOMAIN rows \cup {<<>>},
             Begin(r, Forms[name], target)
      PROVE  ScheduleIInv'
  BY <1>1, BeginKeeps
<1>2. ASSUME NEW r \in Requests, BatchPreflighted(r) PROVE ScheduleIInv'
  BY <1>2, BatchPreflightedKeeps
<1>3. ASSUME NEW r \in Requests, DropCommit(r) PROVE ScheduleIInv'
  BY <1>3, DropCommitKeeps
<1>4. ASSUME NEW r \in Requests, NEW s \in Symbols,
             \/ NextSymbol(r, s) \/ Baselined(r, s) \/ Checked(r, s) \/ Referenced(r, s) \/ Refreshed(r, s)
      PROVE  ScheduleIInv'
  BY <1>4, NextSymbolKeeps, BaselinedKeeps, CheckedKeeps, ReferencedKeeps, RefreshedKeeps
<1>5. ASSUME NEW r \in Requests, NEW s \in Symbols, NEW b \in BOOLEAN,
             Preflighted(r, s, b) \/ Saved(r, s, b) \/ Fault(r, s, b) \/ CommitFault(r, s, b)
      PROVE  ScheduleIInv'
  BY <1>5, PreflightedKeeps, SavedKeeps, FaultKeeps, CommitFaultKeeps
<1>6. ASSUME NEW m \in Markets, Move(m) PROVE ScheduleIInv'
  BY <1>6, MoveKeeps
<1>7. QED
  BY <1>1, <1>2, <1>3, <1>4, <1>5, <1>6, ScheduleStutter DEF ScheduleNext

\* The inductive invariant of the requests: a committed row belongs to a request that has
\* moved on from it, a row at work is its symbol's, an edit or refresh is of a committed
\* row, and a holding that was found in a request nothing disturbed is still there.
THEOREM ScheduleInvariant == ScheduleSpec => []ScheduleIInv
<1>1. QED
  BY ScheduleInductiveInit, ScheduleInductiveStep, PTL DEF ScheduleSpec

-----------------------------------------------------------------------------
(* What a refresh has read.                                                *)

Reading(r, s) == Working(r, s) /\ F(r).kind = "refresh"

\* The steps of one task end a refresh, or are of another request.
LEMMA TaskMoves ==
  ASSUME ScheduleIInv, NEW r \in Requests, NEW s \in Symbols, NEW b \in BOOLEAN,
         \/ NextSymbol(r, s) \/ Baselined(r, s) \/ Checked(r, s) \/ Referenced(r, s) \/ Refreshed(r, s)
         \/ Preflighted(r, s, b) \/ Saved(r, s, b) \/ Fault(r, s, b) \/ CommitFault(r, s, b)
  PROVE  \E task, steady : Works(r, s, task, steady) /\ (F(r).kind = "refresh" => task.at \in Ended)
<1>1. ASSUME NEW stages, stages \cap Ended = {}, At(r, s, stages), F(r).kind = "refresh"
      PROVE  /\ TaskOf(r, s).at = "references" /\ "references" \in stages
             /\ TaskFields(TaskOf(r, s)) /\ TaskOf(r, s).tries \in Nat
  BY <1>1, AtWork
<1>2. ASSUME NEW error, Refuse(r, s, error), F(r).kind = "refresh", TaskFields(TaskOf(r, s)), TaskOf(r, s).tries \in Nat
      PROVE  Works(r, s, Failed(r, s, error), TRUE) /\ Failed(r, s, error).at \in Ended
  BY <1>2, FailFits DEF Refuse, Ended
<1>3. CASE NextSymbol(r, s)
  BY <1>3 DEF NextSymbol, Step
<1>4. CASE Baselined(r, s)
  <2>1. At(r, s, {"baseline"})
    BY <1>4 DEF Baselined
  <2>2. F(r).kind # "refresh"
    BY <1>1, <2>1 DEF Ended
  <2>3. \E task, steady : Works(r, s, task, steady)
    <3> DEFINE f == F(r)
               entry == Based(f, Work(r, s), answers[s])
               available == BaselineAvailable(answers[s], f.drop)
               again == f.kind = "add" /\ Duplicate(f, entry)
               next == IF f.kind = "drop" THEN "preflight" ELSE "checks"
    <3>1. (Captures(f) /\ ~available) \/ (Captures(f) => available)
      OBVIOUS
    <3>2. \/ Refuse(r, s, "data")
          \/ IF again THEN Step(r, s, "skipped", entry) ELSE Step(r, s, next, entry)
      BY <1>4, <3>1 DEF Baselined
    <3> HIDE DEF f, entry, available, again, next
    <3>3. QED
      BY <3>2 DEF Refuse, Step
  <2>4. QED
    BY <2>2, <2>3
<1>5. CASE Checked(r, s)
  <2>1. At(r, s, {"checks"})
    BY <1>5 DEF Checked
  <2>2. F(r).kind # "refresh"
    BY <1>1, <2>1 DEF Ended
  <2>3. QED
    BY <1>5, <2>2 DEF Checked, Refuse, Step
<1>6. CASE Referenced(r, s)
  BY <1>6 DEF Referenced, Refuse, Step
<1>7. CASE Refreshed(r, s)
  <2>1. At(r, s, {"references"}) /\ F(r).kind = "refresh"
        /\ (Step(r, s, "done", NoRow) \/ \E error : Refuse(r, s, error))
    BY <1>7, RefreshedDoes
  <2>2. TaskFields(TaskOf(r, s)) /\ TaskOf(r, s).tries \in Nat
    BY <1>1, <2>1 DEF Ended
  <2>3. CASE \E error : Refuse(r, s, error)
    BY <1>2, <2>1, <2>2, <2>3
  <2>4. CASE Step(r, s, "done", NoRow)
    <3> DEFINE task == [TaskOf(r, s) EXCEPT !.at = "done", !.row = NoRow]
    <3>1. Works(r, s, task, TRUE)
      BY <2>4 DEF Step
    <3>2. task.at \in Ended
      BY <2>2 DEF TaskFields, Ended
    <3> HIDE DEF task
    <3>3. QED
      BY <3>1, <3>2
  <2>5. QED
    BY <2>1, <2>3, <2>4
<1>8. CASE Preflighted(r, s, b)
  <2>1. At(r, s, {"preflight"}) /\ \E task, steady : Works(r, s, task, steady)
    BY <1>8 DEF Preflighted
  <2>2. F(r).kind # "refresh"
    BY <1>1, <2>1 DEF Ended
  <2>3. QED
    BY <2>1, <2>2
<1>9. CASE Saved(r, s, b)
  <2>1. At(r, s, {"snapshot"}) /\ \E task, steady : Works(r, s, task, steady)
    BY <1>9 DEF Saved
  <2>2. F(r).kind # "refresh"
    BY <1>1, <2>1 DEF Ended
  <2>3. QED
    BY <2>1, <2>2
<1>10. CASE Fault(r, s, b)
  <2>1. At(r, s, {"preflight", "baseline", "checks", "references"}) /\ Works(r, s, AfterFault(r, s, b), FALSE)
    BY <1>10 DEF Fault
  <2>2. At(r, s, {"preflight", "baseline", "checks", "references", "snapshot"})
    BY <2>1 DEF At
  <2>3. F(r).kind = "refresh" => AfterFault(r, s, b).at \in Ended
    BY <2>2, FaultFits DEF TaskFits
  <2>4. QED
    BY <2>1, <2>3
<1>11. CASE CommitFault(r, s, b)
  <2>1. At(r, s, {"snapshot"}) /\ \E task, steady : Works(r, s, task, steady)
    BY <1>11 DEF CommitFault
  <2>2. F(r).kind # "refresh"
    BY <1>1, <2>1 DEF Ended
  <2>3. QED
    BY <2>1, <2>2
<1>12. QED
  BY <1>3, <1>4, <1>5, <1>6, <1>7, <1>8, <1>9, <1>10, <1>11

\* A refresh at work is one that was, with what it read, or begins and reads its row now.
LEMMA ReadingStep ==
  ASSUME ScheduleIInv, ScheduleNext, NEW p \in Requests, NEW t \in Symbols, Reading(p, t)'
  PROVE  \/ Reading(p, t) /\ F(p)' = F(p) /\ Work(p, t)' = Work(p, t) /\ job'[p].target = job[p].target
         \/ /\ job[p].stage = "idle" /\ rows' = rows /\ job'[p].target \in DOMAIN rows
            /\ rows[job'[p].target].symbol \in F(p)'.symbols /\ Work(p, t)' = rows[job'[p].target]
<1> DEFINE StillReads == Reading(p, t) /\ F(p)' = F(p) /\ Work(p, t)' = Work(p, t) /\ job'[p].target = job[p].target
<1>1. JobShape
  BY DEF ScheduleIInv
<1>2. ASSUME NEW r \in Requests, NEW s \in Symbols, NEW task, NEW steady, Works(r, s, task, steady),
             F(r).kind = "refresh" => task.at \in Ended
      PROVE  StillReads
  <2>1. /\ job'[p].stage = job[p].stage /\ job'[p].form = job[p].form /\ job'[p].target = job[p].target
        /\ TaskOf(p, t)' = IF p = r /\ t = s THEN task ELSE TaskOf(p, t)
    <3>1. JobFields(job[r]) /\ DOMAIN job[r].task = Symbols /\ DOMAIN job = Requests
      BY <1>1 DEF JobShape
    <3> DEFINE j == [job[r] EXCEPT !.task = [job[r].task EXCEPT ![s] = task], !.steady = job[r].steady /\ steady]
    <3>2. job' = [job EXCEPT ![r] = j]
      BY <1>2 DEF Works
    <3>3. /\ j.stage = job[r].stage /\ j.form = job[r].form /\ j.target = job[r].target
          /\ j.task[s] = task /\ \A u \in Symbols : u # s => j.task[u] = job[r].task[u]
      BY <3>1 DEF JobFields
    <3> HIDE DEF j
    <3>4. job'[p] = IF p = r THEN j ELSE job[p]
      BY <3>1, <3>2
    <3>5. QED
      BY <3>3, <3>4 DEF TaskOf
  <2>2. F(p)' = F(p)
    BY <2>1 DEF F
  <2>3. ~(p = r /\ t = s)
    BY <1>2, <2>1, <2>2 DEF Reading, Working
  <2>4. QED
    BY <2>1, <2>2, <2>3 DEF Reading, Working, Work, TaskOf
<1>3. ASSUME NEW r \in Requests, NEW j, job' = [job EXCEPT ![r] = j], p # r
      PROVE  StillReads
  <2>1. job'[p] = job[p]
    BY <1>1, <1>3 DEF JobShape
  <2>2. QED
    BY <2>1 DEF Reading, Working, Work, TaskOf, F
<1>4. ASSUME NEW r \in Requests, NEW name \in DOMAIN Forms, NEW target, Begin(r, Forms[name], target)
      PROVE  \/ StillReads
             \/ /\ job[p].stage = "idle" /\ rows' = rows /\ job'[p].target \in DOMAIN rows
                /\ rows[job'[p].target].symbol \in F(p)'.symbols /\ Work(p, t)' = rows[job'[p].target]
  <2> DEFINE f == Forms[name]
             first == [NewTask EXCEPT !.at = FirstStage(f), !.row = IF f.kind = "refresh" THEN rows[target] ELSE DraftOf(f, t)]
             tasks == [s \in Symbols |->
               IF s \notin f.symbols THEN NewTask
               ELSE IF RefusedAtOnce(f, s, target) THEN [NewTask EXCEPT !.at = "failed", !.error = "form"]
               ELSE [NewTask EXCEPT !.at = FirstStage(f), !.row = IF f.kind = "refresh" THEN rows[target] ELSE DraftOf(f, s)]]
             j == [stage |-> IF f.kind = "batch" /\ NeedsPreflight(f) THEN "preflight" ELSE "running",
                   form |-> f.name, target |-> target, saw |-> DOMAIN rows, steady |-> TRUE, task |-> tasks]
  <2>1. /\ job[r].stage = "idle" /\ rows' = rows /\ job' = [job EXCEPT ![r] = j]
        /\ f.kind \in {"edit", "refresh"} => target \in Targets(f)
    BY <1>4 DEF Begin
  <2>2. first.row = IF f.kind = "refresh" THEN rows[target] ELSE DraftOf(f, t)
    BY DEF NewTask
  <2>3. t \in f.symbols => tasks[t] = first \/ tasks[t].at = "failed"
    BY DEF NewTask
  <2> HIDE DEF first, tasks
  <2>4. j.form = f.name /\ j.target = target /\ j.task = tasks
    OBVIOUS
  <2> HIDE DEF j
  <2>5. CASE p # r
    BY <1>3, <2>1, <2>5
  <2>6. CASE p = r
    <3>1. job'[p] = j
      BY <1>1, <2>1, <2>6 DEF JobShape
    <3>2. F(p)' = f
      BY <2>4, <3>1, SchedulesAssumption DEF F, FormOf
    <3>3. f.kind = "refresh" /\ t \in f.symbols /\ tasks[t].at \notin Ended
      BY <2>4, <3>1, <3>2 DEF Reading, Working, TaskOf
    <3>4. Work(p, t)' = rows[target]
      BY <2>2, <2>3, <2>4, <3>1, <3>3 DEF Work, Ended
    <3>5. QED
      BY <2>1, <2>4, <2>6, <3>1, <3>2, <3>3, <3>4 DEF Targets
  <2>7. QED
    BY <2>5, <2>6
<1>5. ASSUME NEW r \in Requests, BatchPreflighted(r) PROVE StillReads
  <2>1. job[r].stage = "preflight" /\ F(r).kind = "batch"
    BY <1>1, <1>5 DEF BatchPreflighted, JobShape
  <2>2. PICK j : job' = [job EXCEPT ![r] = j] /\ j.form = job[r].form
    <3>1. PICK tasks : \/ job' = [job EXCEPT ![r].stage = "running"]
                       \/ job' = [job EXCEPT ![r].stage = "done", ![r].task = tasks]
      <4> DEFINE verdict == IF PlanStatus(F(r).plan, F(r).side, "") # "ready"
                              THEN [status |-> PlanStatus(F(r).plan, F(r).side, ""), named |-> {}]
                              ELSE Preflight(F(r).plan, "", answers, Held, FALSE, F(r).drop)
                 blamed == IF verdict.named = {} THEN F(r).symbols ELSE F(r).symbols \cap verdict.named
                 tasks == [s \in Symbols |-> IF s \in blamed THEN Failed(r, s, verdict.status) ELSE TaskOf(r, s)]
      <4>1. job' = IF verdict.status = "ready" THEN [job EXCEPT ![r].stage = "running"]
                   ELSE [job EXCEPT ![r].stage = "done", ![r].task = tasks]
        BY <1>5 DEF BatchPreflighted
      <4> HIDE DEF verdict, tasks
      <4>2. QED
        BY <4>1
    <3>2. JobFields(job[r])
      BY <1>1 DEF JobShape
    <3>3. CASE job' = [job EXCEPT ![r].stage = "running"]
      <4> DEFINE j == [job[r] EXCEPT !.stage = "running"]
      <4>1. j.form = job[r].form /\ job' = [job EXCEPT ![r] = j]
        BY <3>2, <3>3 DEF JobFields
      <4> HIDE DEF j
      <4>2. QED
        BY <4>1
    <3>4. CASE job' = [job EXCEPT ![r].stage = "done", ![r].task = tasks]
      <4> DEFINE j == [job[r] EXCEPT !.stage = "done", !.task = tasks]
      <4>1. j.form = job[r].form /\ job' = [job EXCEPT ![r] = j]
        BY <3>2, <3>4 DEF JobFields
      <4> HIDE DEF j
      <4>2. QED
        BY <4>1
    <3>5. QED
      BY <3>1, <3>3, <3>4
  <2>3. CASE p = r
    <3>1. F(p)' = F(r)
      BY <1>1, <2>2, <2>3 DEF JobShape, F
    <3>2. QED
      BY <2>1, <3>1 DEF Reading
  <2>4. QED
    BY <1>3, <2>2, <2>3
<1>6. ASSUME NEW r \in Requests, DropCommit(r) PROVE StillReads
  <2> DEFINE tasks == [s \in Symbols |-> [TaskOf(r, s) EXCEPT !.row = NoRow,
                       !.at = CASE @ = "flushed" -> "done" [] @ = "stray" -> "failed" [] OTHER -> @]]
             j == [job[r] EXCEPT !.stage = "done", !.task = tasks]
  <2>1. job' = [job EXCEPT ![r] = j]
    BY <1>6 DEF DropCommit
  <2> HIDE DEF tasks
  <2>2. j.stage = "done"
    BY <1>1 DEF JobShape, JobFields
  <2> HIDE DEF j
  <2>3. p # r
    BY <1>1, <2>1, <2>2 DEF JobShape, Reading, Working
  <2>4. QED
    BY <1>3, <2>1, <2>3
<1>7. ASSUME NEW m \in Markets, Move(m) PROVE StillReads
  <2> DEFINE j == [job[p] EXCEPT !.steady = job[p].steady /\ job[p].stage = "idle"]
  <2>1. job'[p] = j
    BY <1>7 DEF Move
  <2>2. j.stage = job[p].stage /\ j.form = job[p].form /\ j.task = job[p].task /\ j.target = job[p].target
    BY <1>1 DEF JobShape, JobFields
  <2> HIDE DEF j
  <2>3. QED
    BY <2>1, <2>2 DEF Reading, Working, Work, TaskOf, F
<1> HIDE DEF StillReads
<1>8. ASSUME NEW r \in Requests, NEW s \in Symbols, NEW b \in BOOLEAN,
             \/ NextSymbol(r, s) \/ Baselined(r, s) \/ Checked(r, s) \/ Referenced(r, s) \/ Refreshed(r, s)
             \/ Preflighted(r, s, b) \/ Saved(r, s, b) \/ Fault(r, s, b) \/ CommitFault(r, s, b)
      PROVE  StillReads
  BY <1>2, <1>8, TaskMoves
<1>9. QED
  BY <1>4, <1>5, <1>6, <1>7, <1>8 DEF ScheduleNext, StillReads

-----------------------------------------------------------------------------
(* What is sold is held.                                                   *)

\* What one step says of the rows it makes: those of a sale by quantity are held.
NewSalesHeld ==
  \A id \in DOMAIN rows' \ DOMAIN rows :
    SellsQuantity(FormOf(rows'[id].form), id[2]) /\ job[id[1]].steady /\ job'[id[1]].steady
      /\ (\E t \in Symbols : answers[t].held > 0)
      => rows'[id].qty <= answers[id[2]].held

\* The preview's estimate of a sale by quantity is that quantity.
LEMMA EstimateIsValue ==
  ASSUME NEW f, NEW s, NEW q, SellsQuantity(f, s), FirstRule(f.plan, s).value \in Int, NEW given
  PROVE  HasPlan(f) /\ IfGiven(EstimatedQuantity(f, s, q, TRUE), given) = FirstRule(f.plan, s).value
<1> DEFINE value == FirstRule(f.plan, s).value
           mode == FirstRule(f.plan, s).mode
<1>1. HasPlan(f) /\ RuleFor(f.plan, s) # {} /\ mode = "quantity" /\ value > 0 /\ value \in Int
  BY DEF SellsQuantity, NeedsPreflight
<1> HIDE DEF value, mode
<1>2. OrderQuantity(mode, value, q.ltp, q.held, value) = value
  <2>1. value # -1 /\ value # 0
    BY <1>1
  <2>2. QED
    BY <1>1, <2>1 DEF OrderQuantity, IfGiven, DepthModes
<1>3. EstimatedQuantity(f, s, q, TRUE) = Greater(value, 0)
  BY <1>1, <1>2 DEF EstimatedQuantity, value, mode
<1>4. Greater(value, 0) = value /\ value # 0
  BY <1>1 DEF Greater
<1>5. QED
  BY <1>1, <1>3, <1>4 DEF IfGiven, value

LEMMA SavedSales ==
  ASSUME ScheduleIInv, NEW r \in Requests, NEW s \in Symbols, NEW readable \in BOOLEAN, Saved(r, s, readable)
  PROVE  NewSalesHeld
<1> DEFINE f == F(r)
           entry == Snapshot(f, Keyed(f, Work(r, s)), answers[s], readable)
           task == [TaskOf(r, s) EXCEPT !.at = "done", !.row = NoRow]
<1>1. /\ At(r, s, {"snapshot"}) /\ answers' = answers /\ Commit(RowId(r, s), entry)
      /\ Works(r, s, task, readable)
  BY DEF Saved
<1>2. /\ Working(r, s) /\ job[r].stage = "running" /\ TaskOf(r, s).at = "snapshot" /\ f.kind \notin {"refresh", "drop"}
      /\ RowFields(Work(r, s)) /\ Work(r, s).symbol = s /\ Work(r, s).form = job[r].form
      /\ TaskFields(TaskOf(r, s)) /\ TaskOf(r, s).tries \in Nat
  BY <1>1, AtWork DEF Ended
<1>3. TaskFields(task) /\ task.tries \in Nat
  BY <1>2 DEF TaskFields
<1> HIDE DEF task
<1>4. job'[r].steady = (job[r].steady /\ readable)
  BY <1>1, <1>3, WorksOnly DEF ScheduleIInv, OnlyTask
<1>5. /\ entry.form = job[r].form
      /\ HasPlan(f) => entry.qty = IfGiven(EstimatedQuantity(f, s, answers[s], readable), Work(r, s).qty)
  BY <1>2, SnapshotFacts
<1>6. DOMAIN rows' = DOMAIN rows \cup {RowId(r, s)} /\ rows'[RowId(r, s)] = entry
  BY <1>1 DEF Commit
<1> HIDE DEF entry
<1>7. f.kind # "edit" => RowId(r, s) = <<r, s, TaskOf(r, s).tries>>
  BY DEF RowId, TaskOf
<1>8. f.kind = "edit" => RowId(r, s) \in DOMAIN rows
  BY <1>2 DEF RowId, ScheduleIInv, TargetKept
<1>9. SUFFICES ASSUME NEW id \in DOMAIN rows' \ DOMAIN rows, SellsQuantity(FormOf(rows'[id].form), id[2]),
                      job[id[1]].steady, job'[id[1]].steady, \E t \in Symbols : answers[t].held > 0
               PROVE  rows'[id].qty <= answers[id[2]].held
  BY DEF NewSalesHeld
<1>10. id = <<r, s, TaskOf(r, s).tries>> /\ id[1] = r /\ id[2] = s /\ rows'[id] = entry /\ FormOf(entry.form) = f
  BY <1>5, <1>6, <1>7, <1>8, <1>9 DEF F
<1>11. /\ SellsQuantity(f, s) /\ job[r].steady /\ readable = TRUE
  BY <1>4, <1>9, <1>10
<1>12. /\ f.kind \in {"create", "add"}
       /\ \A i \in DOMAIN f.plan.rules : i \in Nat /\ f.plan.rules[i].value \in Int
  <2>1. /\ f.kind \in {"create", "add", "edit", "refresh", "batch", "drop"}
        /\ f.kind \in {"batch", "drop"} => f.side = "buy"
        /\ \A i \in DOMAIN f.plan.rules : i \in Nat /\ f.plan.rules[i].value \in Int
    BY <1>2, FormFacts DEF ScheduleIInv
  <2>2. f.side = "sell"
    BY <1>11 DEF SellsQuantity
  <2>3. f.kind # "edit"
    BY <1>6, <1>8, <1>9
  <2>4. QED
    BY <1>2, <2>1, <2>2, <2>3
<1>13. FirstRule(f.plan, s).value <= answers[s].held
  BY <1>1, <1>2, <1>9, <1>11, <1>12 DEF ScheduleIInv, HoldingKept, At
<1>14. FirstRule(f.plan, s).value \in Int
  <2>1. FirstRule(f.plan, s) \in RulesOf(f.plan)
    BY <1>11, <1>12, FirstRuleIn DEF SellsQuantity
  <2>2. QED
    BY <1>12, <2>1 DEF RulesOf
<1>15. entry.qty = FirstRule(f.plan, s).value
  BY <1>5, <1>11, <1>14, EstimateIsValue
<1>16. QED
  BY <1>10, <1>13, <1>15

LEMMA CommitFaultSales ==
  ASSUME ScheduleIInv, NEW r \in Requests, NEW s \in Symbols, NEW made \in BOOLEAN, CommitFault(r, s, made)
  PROVE  NewSalesHeld
<1> DEFINE task == AfterFault(r, s, TRUE)
<1>1. /\ At(r, s, {"snapshot"}) /\ Works(r, s, task, FALSE)
      /\ rows' = rows \/ DOMAIN rows' = DOMAIN rows \cup {RowId(r, s)}
  BY DEF CommitFault, Commit
<1>2. At(r, s, {"preflight", "baseline", "checks", "references", "snapshot"})
  BY <1>1 DEF At
<1>3. TaskFields(task) /\ task.tries \in Nat
  BY <1>2, FaultFits DEF TaskFits
<1> HIDE DEF task
<1>4. job'[r].steady = (job[r].steady /\ FALSE)
  BY <1>1, <1>3, WorksOnly DEF ScheduleIInv, OnlyTask
<1>5. Working(r, s) /\ job[r].stage = "running"
  BY <1>1, AtWork DEF Ended
<1>6. ASSUME NEW id \in DOMAIN rows' \ DOMAIN rows PROVE id[1] = r
  BY <1>1, <1>5, <1>6 DEF RowId, ScheduleIInv, TargetKept
<1>7. QED
  BY <1>4, <1>6 DEF NewSalesHeld

LEMMA DropCommitSales ==
  ASSUME ScheduleIInv, NEW r \in Requests, DropCommit(r)
  PROVE  NewSalesHeld
<1> DEFINE flushed == {s \in F(r).symbols : job[r].task[s].at \in {"flushed", "stray"}}
           kept == IF \E s \in flushed : job[r].task[s].at = "flushed" THEN flushed ELSE {}
           made == {<<r, s, 1>> : s \in kept}
<1>1. /\ job[r].stage = "running" /\ F(r).kind = "drop"
      /\ rows' = [id \in DOMAIN rows \cup made |-> IF id \in made THEN Work(r, id[2]) ELSE rows[id]]
  BY DEF DropCommit
<1>2. F(r).symbols \subseteq Symbols /\ F(r).side = "buy"
  BY <1>1, FormFacts DEF ScheduleIInv
<1>3. ASSUME NEW id \in DOMAIN rows' \ DOMAIN rows PROVE FormOf(rows'[id].form).side = "buy"
  <2>1. id \in made
    BY <1>1, <1>3
  <2>2. id[2] \in flushed /\ rows'[id] = Work(r, id[2])
    BY <1>1, <2>1
  <2>3. Working(r, id[2]) /\ id[2] \in Symbols
    BY <1>1, <1>2, <2>2 DEF Working, TaskOf, Ended
  <2>4. Work(r, id[2]).form = job[r].form
    BY <1>1, <2>3 DEF ScheduleIInv, WorkKept
  <2>5. QED
    BY <1>2, <2>2, <2>4 DEF F
<1>4. QED
  BY <1>3 DEF NewSalesHeld, SellsQuantity

\* A query that sells a quantity is scheduled only for what is held, in an account that
\* holds anything, unless something changed or failed while it was at work: the preflight
\* read the holding, and the estimate of the preview is the quantity of the rule.
THEOREM SoldEver == ScheduleSpec => SoldFromHolding
<1>1. ScheduleIInv /\ [ScheduleNext]_scheduleVars => NewSalesHeld \/ UNCHANGED scheduleVars
  <2> SUFFICES ASSUME ScheduleIInv, ScheduleNext PROVE NewSalesHeld
    OBVIOUS
  <2>1. CASE rows' = rows
    BY <2>1 DEF NewSalesHeld
  <2>2. ASSUME NEW r \in Requests, NEW s \in Symbols, Refreshed(r, s) PROVE NewSalesHeld
    BY <2>2, RefreshedKeeps DEF NewSalesHeld
  <2>3. ASSUME NEW r \in Requests, NEW s \in Symbols, NEW b \in BOOLEAN, Saved(r, s, b) \/ CommitFault(r, s, b)
        PROVE  NewSalesHeld
    BY <2>3, SavedSales, CommitFaultSales
  <2>4. ASSUME NEW r \in Requests, DropCommit(r) PROVE NewSalesHeld
    BY <2>4, DropCommitSales
  <2>5. \/ rows' = rows
        \/ \E r \in Requests : DropCommit(r)
        \/ \E r \in Requests, s \in Symbols : Refreshed(r, s) \/ \E b \in BOOLEAN : Saved(r, s, b) \/ CommitFault(r, s, b)
    <3>1. ASSUME NEW r \in Requests, NEW name, NEW target, Begin(r, Forms[name], target) PROVE rows' = rows
      BY <3>1 DEF Begin
    <3>2. ASSUME NEW r \in Requests, BatchPreflighted(r) PROVE rows' = rows
      BY <3>2 DEF BatchPreflighted
    <3>3. ASSUME NEW r \in Requests, NEW s \in Symbols, NextSymbol(r, s) \/ Baselined(r, s) \/ Checked(r, s) \/ Referenced(r, s)
          PROVE  rows' = rows
      BY <3>3 DEF NextSymbol, Baselined, Checked, Referenced
    <3>4. ASSUME NEW r \in Requests, NEW s \in Symbols, NEW b \in BOOLEAN, Preflighted(r, s, b) \/ Fault(r, s, b)
          PROVE  rows' = rows
      BY <3>4 DEF Preflighted, Fault
    <3>5. ASSUME NEW m \in Markets, Move(m) PROVE rows' = rows
      BY <3>5 DEF Move
    <3>6. QED
      BY <3>1, <3>2, <3>3, <3>4, <3>5 DEF ScheduleNext
  <2>6. QED
    BY <2>1, <2>2, <2>3, <2>4, <2>5
<1>2. NewSalesHeld \/ UNCHANGED scheduleVars <=>
        [\A id \in DOMAIN rows' \ DOMAIN rows :
           SellsQuantity(FormOf(rows'[id].form), id[2]) /\ job[id[1]].steady /\ job'[id[1]].steady
             /\ (\E t \in Symbols : answers[t].held > 0)
             => rows'[id].qty <= answers[id[2]].held]_scheduleVars
  BY DEF NewSalesHeld
<1>3. QED
  BY <1>1, <1>2, ScheduleInvariant, PTL DEF ScheduleSpec, SoldFromHolding

-----------------------------------------------------------------------------
(* No second order of one request: the inductive invariant.                *)

\* What a task of a form has made of its row: the quantity and the price that the form
\* asks for, and its trigger once the baseline was looked at.
AskedBy(f, s, at, entry) ==
  /\ entry.qty = FormQuantity(f, s) /\ entry.price = f.price
  /\ f.kind = "edit" /\ at \in {"references", "snapshot"} => entry.edited
  /\ at \in {"preflight", "baseline"} /\ f.kind # "drop" => entry.literal = f.level
  /\ at \in {"checks", "references", "snapshot"} /\ ~Captures(f) => entry.literal = Level(f)
WorkAsked ==
  \A r \in Requests, s \in Symbols :
    Working(r, s) /\ F(r).kind # "refresh" => AskedBy(F(r), s, TaskOf(r, s).at, Work(r, s))

\* What a committed row that was not edited keeps of its form.
RowAsked(entry) ==
  LET f == FormOf(entry.form) IN
  /\ entry.price = f.price
  /\ StableQuantity(f, entry.symbol) => entry.qty = FormQuantity(f, entry.symbol)
  /\ ~Captures(f) => entry.literal = Level(f) /\ entry.key = KeyOf(f, entry)
RowsAsked == \A id \in DOMAIN rows : ~rows[id].edited => RowAsked(rows[id])

\* A task beyond its check for a duplicate found none in the rows that its request saw.
PassedCheck(name, at) ==
  \/ name = "create" /\ at \in {"references", "snapshot"}
  \/ name = "add" /\ at \in {"checks", "references", "snapshot"}
NoneBefore ==
  \A r \in Requests :
    /\ job[r].saw \subseteq DOMAIN rows
    /\ \A s \in Symbols : Working(r, s) /\ PassedCheck(F(r).kind, TaskOf(r, s).at)
         => \A old \in job[r].saw : ~Second(F(r), s, rows[old])

SecondIInv == WorkAsked /\ RowsAsked /\ NoneBefore /\ NoSecondOrder

\* What a refresh has read of an order that was not edited is still so.
SameForm(now, read) == ~now.edited => now.form = read.form /\ now.literal = read.literal /\ now.key = read.key
ReadsUnedited == \A r \in Requests, s \in Symbols : Reading(r, s) => SameForm(rows[job[r].target], Work(r, s))

-----------------------------------------------------------------------------
(* What the steps do to it.                                                *)

\* A row as it was, or edited.
KeptRow(old, new) ==
  \/ new.edited
  \/ /\ new.edited = old.edited /\ new.symbol = old.symbol /\ new.form = old.form
     /\ new.qty = old.qty /\ new.price = old.price /\ new.key = old.key /\ new.literal = old.literal

LEMMA KeptSecond ==
  ASSUME NEW f, NEW s, NEW old, NEW new, KeptRow(old, new), Second(f, s, new)
  PROVE  Second(f, s, old)
BY DEF KeptRow, Second

LEMMA KeptAsked ==
  ASSUME NEW old, NEW new, KeptRow(old, new), ~new.edited, ~old.edited => RowAsked(old)
  PROVE  ~old.edited /\ RowAsked(new)
<1>1. /\ new.edited = old.edited /\ new.symbol = old.symbol /\ new.form = old.form
      /\ new.qty = old.qty /\ new.price = old.price /\ new.key = old.key /\ new.literal = old.literal
  BY DEF KeptRow
<1>2. QED
  BY <1>1 DEF RowAsked, KeyOf

\* A step that changes the requests of R keeps the invariant when their tasks and the rows
\* they make fit it.
LEMMA SecondKeeps ==
  ASSUME SecondIInv, \A id \in DOMAIN rows : id[1] \in Requests,
         NEW R \in SUBSET Requests,
         \A p \in Requests : p \notin R =>
           /\ job'[p].stage = job[p].stage /\ job'[p].form = job[p].form /\ job'[p].saw = job[p].saw
           /\ \A s \in Symbols : TaskOf(p, s)' = TaskOf(p, s),
         \A p \in R : job'[p].saw \subseteq DOMAIN rows,
         \A id \in DOMAIN rows : id[1] \in R => job'[id[1]].saw = job[id[1]].saw,
         \A p \in R, s \in Symbols : Working(p, s)' =>
           /\ F(p)'.kind # "refresh" => AskedBy(F(p)', s, TaskOf(p, s)'.at, Work(p, s)')
           /\ PassedCheck(F(p)'.kind, TaskOf(p, s)'.at) => \A old \in job'[p].saw : ~Second(F(p)', s, rows[old]),
         DOMAIN rows \subseteq DOMAIN rows',
         \A id \in DOMAIN rows : KeptRow(rows[id], rows'[id]),
         \A id \in DOMAIN rows' \ DOMAIN rows :
           /\ id[1] \in R
           /\ ~rows'[id].edited => RowAsked(rows'[id])
           /\ ~rows'[id].edited /\ FormOf(rows'[id].form).kind \in {"create", "add"}
                => \A old \in job'[id[1]].saw : ~Second(FormOf(rows'[id].form), rows'[id].symbol, rows[old])
  PROVE  SecondIInv'
<1>1. WorkAsked /\ RowsAsked /\ NoneBefore /\ NoSecondOrder
  BY DEF SecondIInv
<1>2. \A p \in Requests : p \notin R =>
        /\ F(p)' = F(p) /\ job'[p].saw = job[p].saw
        /\ \A s \in Symbols : /\ Working(p, s)' = Working(p, s) /\ TaskOf(p, s)' = TaskOf(p, s)
                              /\ Work(p, s)' = Work(p, s)
  BY DEF F, Working, Work, TaskOf
<1>3. WorkAsked'
  <2> SUFFICES ASSUME NEW p \in Requests, NEW s \in Symbols, Working(p, s)', F(p)'.kind # "refresh"
               PROVE  AskedBy(F(p)', s, TaskOf(p, s)'.at, Work(p, s)')
    BY DEF WorkAsked, AskedBy
  <2>1. CASE p \in R
    BY <2>1
  <2>2. CASE p \notin R
    BY <1>1, <1>2, <2>2 DEF WorkAsked
  <2>3. QED
    BY <2>1, <2>2
<1>4. RowsAsked'
  <2> SUFFICES ASSUME NEW id \in DOMAIN rows', ~rows'[id].edited PROVE RowAsked(rows'[id])
    BY DEF RowsAsked, RowAsked, KeyOf
  <2>1. CASE id \in DOMAIN rows
    BY <1>1, <2>1, KeptAsked DEF RowsAsked
  <2>2. CASE id \notin DOMAIN rows
    BY <2>2
  <2>3. QED
    BY <2>1, <2>2
<1>5. \A p \in Requests : job'[p].saw \subseteq DOMAIN rows
  BY <1>1, <1>2 DEF NoneBefore
<1>6. \A p \in Requests : \A f, s : \A old \in job'[p].saw : Second(f, s, rows'[old]) => Second(f, s, rows[old])
  BY <1>5, KeptSecond
<1>7. NoneBefore'
  <2> SUFFICES ASSUME NEW p \in Requests
               PROVE  /\ job'[p].saw \subseteq DOMAIN rows'
                      /\ \A s \in Symbols : Working(p, s)' /\ PassedCheck(F(p)'.kind, TaskOf(p, s)'.at)
                           => \A old \in job'[p].saw : ~Second(F(p)', s, rows'[old])
    BY DEF NoneBefore, PassedCheck, Second, SameRequest, SameTrigger, StableQuantity
  <2>1. \A s \in Symbols : Working(p, s)' /\ PassedCheck(F(p)'.kind, TaskOf(p, s)'.at)
                           => \A old \in job'[p].saw : ~Second(F(p)', s, rows[old])
    <3>1. CASE p \in R
      BY <3>1
    <3>2. CASE p \notin R
      BY <1>1, <1>2, <3>2 DEF NoneBefore
    <3>3. QED
      BY <3>1, <3>2
  <2>2. QED
    BY <1>5, <1>6, <2>1
<1>8. NoSecondOrder'
  <2> SUFFICES ASSUME NEW id \in DOMAIN rows', FormOf(rows'[id].form).kind \in {"create", "add"}, ~rows'[id].edited,
                      NEW old \in job'[id[1]].saw \ {id}
               PROVE  ~Second(FormOf(rows'[id].form), rows'[id].symbol, rows'[old])
    BY DEF NoSecondOrder, Asks, Second, SameRequest, SameTrigger, StableQuantity
  <2>1. id[1] \in Requests
    OBVIOUS
  <2>2. ~Second(FormOf(rows'[id].form), rows'[id].symbol, rows[old])
    <3>1. CASE id \in DOMAIN rows
      <4>1. ~rows[id].edited /\ rows'[id].form = rows[id].form /\ rows'[id].symbol = rows[id].symbol
        BY <3>1 DEF KeptRow
      <4>2. old \in job[id[1]].saw
        BY <1>2, <2>1, <3>1
      <4>3. QED
        BY <1>1, <3>1, <4>1, <4>2 DEF NoSecondOrder, Asks
    <3>2. CASE id \notin DOMAIN rows
      BY <3>2
    <3>3. QED
      BY <3>1, <3>2
  <2>3. QED
    BY <1>6, <2>1, <2>2
<1>9. QED
  BY <1>3, <1>4, <1>7, <1>8 DEF SecondIInv

\* The same for a step of one task.
LEMMA SecondTask ==
  ASSUME ScheduleIInv, SecondIInv, NEW r \in Requests, NEW s \in Symbols, Working(r, s),
         NEW task, TaskFields(task), task.tries \in Nat, NEW steady \in BOOLEAN, Works(r, s, task, steady),
         task.at \notin Ended /\ F(r).kind # "refresh" => AskedBy(F(r), s, task.at, task.row),
         task.at \notin Ended /\ PassedCheck(F(r).kind, task.at) => \A old \in job[r].saw : ~Second(F(r), s, rows[old]),
         DOMAIN rows \subseteq DOMAIN rows',
         \A id \in DOMAIN rows : KeptRow(rows[id], rows'[id]),
         \A id \in DOMAIN rows' \ DOMAIN rows :
           /\ id[1] = r
           /\ ~rows'[id].edited => RowAsked(rows'[id])
           /\ ~rows'[id].edited /\ FormOf(rows'[id].form).kind \in {"create", "add"}
                => \A old \in job[r].saw : ~Second(FormOf(rows'[id].form), rows'[id].symbol, rows[old])
  PROVE  SecondIInv'
<1>1. OnlyTask(r, s, task, steady)
  BY WorksOnly DEF ScheduleIInv
<1>2. \A id \in DOMAIN rows : id[1] \in Requests
  BY DEF ScheduleIInv, RowsCommitted, Identified
<1>3. WorkAsked /\ NoneBefore
  BY DEF SecondIInv
<1>4. /\ job'[r].stage = job[r].stage /\ F(r)' = F(r) /\ job'[r].saw = job[r].saw
      /\ TaskOf(r, s)' = task /\ Work(r, s)' = task.row
      /\ \A t \in Symbols : t # s => TaskOf(r, t)' = TaskOf(r, t) /\ Work(r, t)' = Work(r, t)
  BY <1>1 DEF OnlyTask, F, Work, TaskOf
<1>5. ASSUME NEW t \in Symbols, Working(r, t)'
      PROVE  /\ F(r)'.kind # "refresh" => AskedBy(F(r)', t, TaskOf(r, t)'.at, Work(r, t)')
             /\ PassedCheck(F(r)'.kind, TaskOf(r, t)'.at) => \A old \in job'[r].saw : ~Second(F(r)', t, rows[old])
  <2>1. CASE t = s
    <3>1. task.at \notin Ended
      BY <1>4, <1>5, <2>1 DEF Working
    <3>2. QED
      BY <1>4, <2>1, <3>1
  <2>2. CASE t # s
    <3>1. Working(r, t) /\ TaskOf(r, t)' = TaskOf(r, t) /\ Work(r, t)' = Work(r, t)
      BY <1>4, <1>5, <2>2 DEF Working
    <3>2. QED
      BY <1>3, <1>4, <3>1 DEF WorkAsked, NoneBefore
  <2>3. QED
    BY <2>1, <2>2
<1>6. \A p \in Requests : p \notin {r} =>
        /\ job'[p].stage = job[p].stage /\ job'[p].form = job[p].form /\ job'[p].saw = job[p].saw
        /\ \A t \in Symbols : TaskOf(p, t)' = TaskOf(p, t)
  BY <1>1 DEF OnlyTask
<1>7. job'[r].saw \subseteq DOMAIN rows
  BY <1>3, <1>4 DEF NoneBefore
<1>8. QED
  <2> DEFINE R == {r}
  <2>1. R \in SUBSET Requests /\ \A p : p \in R <=> p = r
    OBVIOUS
  <2>2. \A p \in Requests : p \notin R =>
           /\ job'[p].stage = job[p].stage /\ job'[p].form = job[p].form /\ job'[p].saw = job[p].saw
           /\ \A t \in Symbols : TaskOf(p, t)' = TaskOf(p, t)
    BY <1>6
  <2> HIDE DEF R
  <2>3. QED
    BY <1>2, <1>4, <1>5, <1>7, <2>1, <2>2, SecondKeeps

\* A step that leaves the rows.
LEMMA SecondStep ==
  ASSUME ScheduleIInv, SecondIInv, rows' = rows, NEW r \in Requests, NEW s \in Symbols, Working(r, s),
         NEW at, NEW entry, Step(r, s, at, entry),
         at \notin Ended => F(r).kind # "refresh" /\ AskedBy(F(r), s, at, entry),
         at \notin Ended /\ PassedCheck(F(r).kind, at) => \A old \in job[r].saw : ~Second(F(r), s, rows[old])
  PROVE  SecondIInv'
<1> DEFINE task == [TaskOf(r, s) EXCEPT !.at = at, !.row = entry]
<1>1. TaskFields(TaskOf(r, s)) /\ TaskOf(r, s).tries \in Nat
  BY DEF ScheduleIInv, JobShape
<1>2. TaskFields(task) /\ task.tries \in Nat /\ task.at = at /\ task.row = entry
  BY <1>1 DEF TaskFields
<1>3. Works(r, s, task, TRUE)
  BY DEF Step
<1> HIDE DEF task
<1>4. \A id \in DOMAIN rows : KeptRow(rows[id], rows'[id])
  BY DEF KeptRow
<1>5. QED
  BY <1>2, <1>3, <1>4, SecondTask

LEMMA SecondRefuse ==
  ASSUME ScheduleIInv, SecondIInv, rows' = rows, NEW r \in Requests, NEW s \in Symbols, Working(r, s),
         NEW error, NEW steady \in BOOLEAN, Works(r, s, Failed(r, s, error), steady)
  PROVE  SecondIInv'
<1>1. TaskFields(TaskOf(r, s)) /\ TaskOf(r, s).tries \in Nat
  BY DEF ScheduleIInv, JobShape
<1>2. TaskFields(Failed(r, s, error)) /\ Failed(r, s, error).tries \in Nat /\ Failed(r, s, error).at \in Ended
  BY <1>1 DEF TaskFields, Failed, Ended
<1>3. \A id \in DOMAIN rows : KeptRow(rows[id], rows'[id])
  BY DEF KeptRow
<1>4. QED
  BY <1>2, <1>3, SecondTask

\* What the check for a duplicate finds.
LEMMA SecondIsDuplicate ==
  ASSUME SecondIInv, NEW f, NEW s, NEW entry, entry.symbol = s, entry.qty = FormQuantity(f, s), entry.price = f.price,
         ~Captures(f) => entry.literal = Level(f),
         NEW id \in DOMAIN rows, Second(f, s, rows[id])
  PROVE  Duplicate(f, entry)
<1> DEFINE old == rows[id]
           g == FormOf(old.form)
<1>1. /\ ~old.edited /\ old.symbol = s
      /\ f.query = g.query /\ f.plan = g.plan /\ f.side = g.side /\ f.price = g.price /\ f.qty = g.qty
      /\ StableQuantity(g, s) \/ SameTrigger(f, g)
  BY DEF Second, SameRequest
<1>2. RowAsked(old)
  BY <1>1 DEF SecondIInv, RowsAsked
<1>3. /\ old.price = g.price /\ (StableQuantity(g, s) => old.qty = FormQuantity(g, s))
      /\ ~Captures(g) => old.literal = Level(g) /\ old.key = KeyOf(g, old)
  BY <1>1, <1>2 DEF RowAsked
<1> HIDE DEF old, g
<1>4. FormQuantity(f, s) = FormQuantity(g, s) /\ HasPlan(f) = HasPlan(g)
  BY <1>1 DEF FormQuantity, HasPlan
<1>5. CASE StableQuantity(g, s)
  <2>1. old.price = entry.price /\ old.qty = entry.qty /\ old.symbol = entry.symbol
    BY <1>1, <1>3, <1>4, <1>5
  <2>2. QED
    BY <1>1, <1>4, <2>1 DEF Duplicate, old, g
<1>6. CASE SameTrigger(f, g)
  <2>1. old.literal = entry.literal /\ old.key = KeyOf(g, old)
    BY <1>3, <1>6 DEF SameTrigger
  <2>2. KeyOf(g, old) = KeyOf(f, entry)
    BY <1>1, <1>4, <2>1 DEF KeyOf
  <2>3. QED
    BY <1>1, <1>4, <2>1, <2>2 DEF Duplicate, old, g
<1>7. QED
  BY <1>1, <1>5, <1>6

\* What is known of a task at work.
LEMMA AskedAtWork ==
  ASSUME ScheduleIInv, SecondIInv, NEW r \in Requests, NEW s \in Symbols, NEW stages, stages \cap Ended = {}, At(r, s, stages)
  PROVE  /\ Working(r, s) /\ job[r].stage = "running" /\ TaskOf(r, s).at \in stages
         /\ F(r).kind = "refresh" => TaskOf(r, s).at = "references"
         /\ F(r).kind # "refresh" => /\ AskedBy(F(r), s, TaskOf(r, s).at, Work(r, s))
                                     /\ Work(r, s).symbol = s /\ Work(r, s).form = job[r].form /\ RowFields(Work(r, s))
         /\ PassedCheck(F(r).kind, TaskOf(r, s).at) => \A old \in job[r].saw : ~Second(F(r), s, rows[old])
         /\ job[r].saw \subseteq DOMAIN rows
BY AtWork DEF SecondIInv, WorkAsked, NoneBefore

LEMMA NextSymbolSecond ==
  ASSUME ScheduleIInv, SecondIInv, NEW r \in Requests, NEW s \in Symbols, NextSymbol(r, s)
  PROVE  SecondIInv'
<1>1. /\ At(r, s, {"queued"}) /\ F(r).kind = "drop" /\ Step(r, s, "baseline", Work(r, s)) /\ rows' = rows
  BY DEF NextSymbol
<1>2. Working(r, s) /\ AskedBy(F(r), s, "queued", Work(r, s)) /\ TaskOf(r, s).at = "queued"
  BY <1>1, AskedAtWork DEF Ended
<1>3. AskedBy(F(r), s, "baseline", Work(r, s)) /\ ~PassedCheck(F(r).kind, "baseline")
  BY <1>1, <1>2 DEF AskedBy, PassedCheck
<1>4. QED
  BY <1>1, <1>2, <1>3, SecondStep

LEMMA PreflightedSecond ==
  ASSUME ScheduleIInv, SecondIInv, NEW r \in Requests, NEW s \in Symbols, NEW readable \in BOOLEAN, Preflighted(r, s, readable)
  PROVE  SecondIInv'
<1> DEFINE moved == [TaskOf(r, s) EXCEPT !.at = AfterPreflight(F(r))]
<1>1. /\ At(r, s, {"preflight"}) /\ rows' = rows
      /\ Works(r, s, moved, readable) \/ Works(r, s, Failed(r, s, "preflight"), readable)
  BY DEF Preflighted
<1>2. /\ Working(r, s) /\ F(r).kind # "refresh" /\ AskedBy(F(r), s, "preflight", Work(r, s))
  BY <1>1, AskedAtWork DEF Ended
<1>3. CASE Works(r, s, Failed(r, s, "preflight"), readable)
  BY <1>1, <1>2, <1>3, SecondRefuse
<1>4. CASE Works(r, s, moved, readable)
  <2>1. TaskFields(TaskOf(r, s)) /\ TaskOf(r, s).tries \in Nat
    BY DEF ScheduleIInv, JobShape
  <2>2. TaskFields(moved) /\ moved.tries \in Nat /\ moved.at = AfterPreflight(F(r)) /\ moved.row = Work(r, s)
    BY <2>1 DEF TaskFields, Work, TaskOf
  <2>3. AskedBy(F(r), s, AfterPreflight(F(r)), Work(r, s))
    <3>1. CASE F(r).kind = "drop"
      BY <1>2, <3>1 DEF AskedBy, AfterPreflight, Captures
    <3>2. CASE F(r).kind # "drop"
      BY <1>2, <3>2 DEF AskedBy, AfterPreflight
    <3>3. QED
      BY <3>1, <3>2
  <2>4. ~PassedCheck(F(r).kind, AfterPreflight(F(r)))
    BY DEF PassedCheck, AfterPreflight
  <2> HIDE DEF moved
  <2>5. \A id \in DOMAIN rows : KeptRow(rows[id], rows'[id])
    BY <1>1 DEF KeptRow
  <2>6. QED
    BY <1>1, <1>2, <1>4, <2>2, <2>3, <2>4, <2>5, SecondTask
<1>5. QED
  BY <1>1, <1>3, <1>4

LEMMA BaselinedSecond ==
  ASSUME ScheduleIInv, SecondIInv, NEW r \in Requests, NEW s \in Symbols, Baselined(r, s)
  PROVE  SecondIInv'
<1> DEFINE f == F(r)
           entry == Based(f, Work(r, s), answers[s])
<1>1. At(r, s, {"baseline"}) /\ rows' = rows
  BY DEF Baselined
<1>2. /\ Working(r, s) /\ f.kind # "refresh" /\ AskedBy(f, s, "baseline", Work(r, s))
      /\ RowFields(Work(r, s)) /\ Work(r, s).symbol = s /\ job[r].saw \subseteq DOMAIN rows
  BY <1>1, AskedAtWork DEF Ended
<1>3. /\ entry.symbol = s /\ entry.qty = FormQuantity(f, s) /\ entry.price = f.price
      /\ f.kind # "drop" /\ ~Captures(f) => entry.literal = Level(f)
  <2>1. /\ Work(r, s).qty = FormQuantity(f, s) /\ Work(r, s).price = f.price
        /\ f.kind # "drop" => Work(r, s).literal = f.level
    BY <1>2 DEF AskedBy
  <2>2. ASSUME NEW ref, NEW b, b = WithBaseline(Work(r, s), f, ref)
        PROVE  b.symbol = s /\ b.qty = FormQuantity(f, s) /\ b.price = f.price /\ b.literal = Trigger(ref, f.drop)
    BY <1>2, <2>1, <2>2 DEF WithBaseline, RowFields
  <2>3. CASE Captures(f)
    BY <2>2, <2>3 DEF Based
  <2>4. CASE ~Captures(f) /\ (f.base = "none" \/ PlanUsesReference(f.plan))
    BY <1>2, <2>1, <2>4 DEF Based, Level
  <2>5. CASE ~Captures(f) /\ ~(f.base = "none" \/ PlanUsesReference(f.plan))
    BY <2>2, <2>5 DEF Based, Level
  <2>6. QED
    BY <2>3, <2>4, <2>5
<1> HIDE DEF entry
<1>4. f.kind = "drop" => Captures(f)
  BY DEF Captures
<1>5. \/ \E error : Refuse(r, s, error)
      \/ Step(r, s, "skipped", entry)
      \/ /\ f.kind = "add" => ~Duplicate(f, entry)
         /\ Step(r, s, IF f.kind = "drop" THEN "preflight" ELSE "checks", entry)
  <2>1. (Captures(f) /\ ~BaselineAvailable(answers[s], f.drop)) \/ (Captures(f) => BaselineAvailable(answers[s], f.drop))
    OBVIOUS
  <2>2. \/ Refuse(r, s, "data")
        \/ IF f.kind = "add" /\ Duplicate(f, entry) THEN Step(r, s, "skipped", entry)
           ELSE Step(r, s, IF f.kind = "drop" THEN "preflight" ELSE "checks", entry)
    BY <2>1 DEF Baselined, entry
  <2>3. QED
    BY <2>2
<1>6. CASE \E error : Refuse(r, s, error)
  BY <1>1, <1>2, <1>6, SecondRefuse DEF Refuse
<1>7. CASE Step(r, s, "skipped", entry)
  BY <1>1, <1>2, <1>7, SecondStep DEF Ended
<1>8. CASE (f.kind = "add" => ~Duplicate(f, entry)) /\ Step(r, s, IF f.kind = "drop" THEN "preflight" ELSE "checks", entry)
  <2>1. CASE f.kind = "drop"
    <3>1. AskedBy(f, s, "preflight", entry) /\ ~PassedCheck(f.kind, "preflight")
      BY <1>3, <2>1 DEF AskedBy, PassedCheck
    <3>2. QED
      BY <1>1, <1>2, <1>8, <2>1, <3>1, SecondStep
  <2>2. CASE f.kind # "drop"
    <3>1. AskedBy(f, s, "checks", entry)
      BY <1>3, <2>2 DEF AskedBy
    <3>2. PassedCheck(f.kind, "checks") => \A old \in job[r].saw : ~Second(f, s, rows[old])
      BY <1>2, <1>3, <1>4, <1>8, SecondIsDuplicate DEF PassedCheck
    <3>3. QED
      BY <1>1, <1>2, <1>8, <2>2, <3>1, <3>2, SecondStep
  <2>3. QED
    BY <2>1, <2>2
<1>9. QED
  BY <1>5, <1>6, <1>7, <1>8

LEMMA CheckedSecond ==
  ASSUME ScheduleIInv, SecondIInv, NEW r \in Requests, NEW s \in Symbols, Checked(r, s)
  PROVE  SecondIInv'
<1> DEFINE f == F(r)
           entry == IF f.kind = "edit" THEN Updated(rows[job[r].target], Work(r, s), f) ELSE Work(r, s)
<1>1. At(r, s, {"checks"}) /\ rows' = rows
  BY DEF Checked
<1>2. /\ Working(r, s) /\ f.kind # "refresh" /\ AskedBy(f, s, "checks", Work(r, s)) /\ TaskOf(r, s).at = "checks"
      /\ RowFields(Work(r, s)) /\ Work(r, s).symbol = s /\ job[r].saw \subseteq DOMAIN rows
      /\ PassedCheck(f.kind, "checks") => \A old \in job[r].saw : ~Second(f, s, rows[old])
  BY <1>1, AskedAtWork DEF Ended
<1>3. /\ entry.symbol = s /\ entry.qty = FormQuantity(f, s) /\ entry.price = f.price
      /\ ~Captures(f) => entry.literal = Level(f)
      /\ f.kind = "edit" => entry.edited
  <2>1. /\ Work(r, s).qty = FormQuantity(f, s) /\ Work(r, s).price = f.price
        /\ ~Captures(f) => Work(r, s).literal = Level(f)
    BY <1>2 DEF AskedBy
  <2>2. CASE f.kind = "edit"
    <3>1. /\ entry.symbol = Work(r, s).symbol /\ entry.qty = Work(r, s).qty /\ entry.price = Work(r, s).price
          /\ entry.literal = Work(r, s).literal /\ entry.edited = TRUE
      BY <1>2, <2>2 DEF Updated, RowFields
    <3>2. QED
      BY <1>2, <2>1, <3>1
  <2>3. CASE f.kind # "edit"
    BY <1>2, <2>1, <2>3
  <2>4. QED
    BY <2>2, <2>3
<1> HIDE DEF entry
<1>4. \/ Refuse(r, s, "check")
      \/ Step(r, s, "skipped", entry)
      \/ (f.kind = "create" => ~Duplicate(f, entry)) /\ Step(r, s, "references", entry)
  <2>1. \/ Refuse(r, s, "check")
        \/ Step(r, s, IF f.kind = "create" /\ Duplicate(f, entry) THEN "skipped" ELSE "references", entry)
    BY DEF Checked, entry
  <2>2. QED
    BY <2>1
<1>5. CASE Refuse(r, s, "check")
  BY <1>1, <1>2, <1>5, SecondRefuse DEF Refuse
<1>6. CASE Step(r, s, "skipped", entry)
  BY <1>1, <1>2, <1>6, SecondStep DEF Ended
<1>7. CASE (f.kind = "create" => ~Duplicate(f, entry)) /\ Step(r, s, "references", entry)
  <2>1. AskedBy(f, s, "references", entry)
    BY <1>3 DEF AskedBy
  <2>2. PassedCheck(f.kind, "references") => \A old \in job[r].saw : ~Second(f, s, rows[old])
    <3>1. CASE f.kind = "create"
      BY <1>2, <1>3, <1>7, <3>1, SecondIsDuplicate
    <3>2. CASE f.kind = "add"
      BY <1>2, <3>2 DEF PassedCheck
    <3>3. QED
      BY <3>1, <3>2 DEF PassedCheck
  <2>3. QED
    BY <1>1, <1>2, <1>7, <2>1, <2>2, SecondStep
<1>8. QED
  BY <1>4, <1>5, <1>6, <1>7

LEMMA ReferencedSecond ==
  ASSUME ScheduleIInv, SecondIInv, NEW r \in Requests, NEW s \in Symbols, Referenced(r, s)
  PROVE  SecondIInv'
<1> DEFINE f == F(r)
           rest == IF f.kind = "drop" THEN "flushed" ELSE "snapshot"
           bare == [Work(r, s) EXCEPT !.shown = {}]
           full == Captured(r, s, CaptureReferences(ReferenceFields(f.plan, s), answers[s]))
<1>1. /\ At(r, s, {"references"}) /\ rows' = rows /\ f.kind # "refresh"
      /\ \/ Refuse(r, s, "data")
         \/ \E entry \in {bare, full} : Step(r, s, rest, entry)
  BY DEF Referenced
<1>2. /\ Working(r, s) /\ AskedBy(f, s, "references", Work(r, s)) /\ RowFields(Work(r, s))
      /\ PassedCheck(f.kind, "references") => \A old \in job[r].saw : ~Second(f, s, rows[old])
  BY <1>1, AskedAtWork DEF Ended
<1>3. ASSUME NEW entry \in {bare, full} PROVE AskedBy(f, s, rest, entry)
  <2>1. /\ entry.qty = Work(r, s).qty /\ entry.price = Work(r, s).price
        /\ entry.literal = Work(r, s).literal /\ entry.edited = Work(r, s).edited
    BY <1>2, <1>3 DEF RowFields, Captured
  <2> HIDE DEF bare, full
  <2>2. QED
    BY <1>2, <2>1 DEF AskedBy
<1>4. PassedCheck(f.kind, rest) => PassedCheck(f.kind, "references")
  BY DEF PassedCheck
<1> HIDE DEF rest, bare, full
<1>5. CASE Refuse(r, s, "data")
  BY <1>1, <1>2, <1>5, SecondRefuse DEF Refuse
<1>6. ASSUME NEW entry \in {bare, full}, Step(r, s, rest, entry) PROVE SecondIInv'
  BY <1>1, <1>2, <1>3, <1>4, <1>6, SecondStep
<1>7. QED
  BY <1>1, <1>5, <1>6

LEMMA RefreshedRows ==
  ASSUME ScheduleIInv, ReadsUnedited, NEW r \in Requests, NEW s \in Symbols, Refreshed(r, s)
  PROVE  DOMAIN rows' = DOMAIN rows /\ \A i \in DOMAIN rows : KeptRow(rows[i], rows'[i])
<1> DEFINE id == job[r].target
           now == rows[id]
           read == Work(r, s)
<1>1. /\ At(r, s, {"references"}) /\ F(r).kind = "refresh"
      /\ rows' = rows \/ \E changed, mine : Commit(id, Copied(Fresh(now, read, changed, r), read, mine))
  BY RefreshedDoes
<1>2. Working(r, s) /\ id \in DOMAIN rows
  BY <1>1, AtWork DEF Ended
<1>3. RowFields(now) /\ SameForm(now, read)
  BY <1>1, <1>2 DEF ScheduleIInv, RowsCommitted, ReadsUnedited, Reading
<1>4. \A i \in DOMAIN rows : KeptRow(rows[i], rows[i])
  BY DEF KeptRow
<1>5. ASSUME NEW changed, NEW mine, Commit(id, Copied(Fresh(now, read, changed, r), read, mine))
      PROVE  DOMAIN rows' = DOMAIN rows /\ \A i \in DOMAIN rows : KeptRow(rows[i], rows'[i])
  <2> DEFINE entry == Copied(Fresh(now, read, changed, r), read, mine)
  <2>1. /\ entry.symbol = now.symbol /\ entry.qty = now.qty /\ entry.edited = now.edited /\ entry.price = now.price
        /\ \/ entry.form = now.form /\ entry.literal = now.literal /\ entry.key = now.key
           \/ entry.form = read.form /\ entry.literal = read.literal /\ entry.key = read.key
    BY <1>3, RefreshedRow
  <2> HIDE DEF entry
  <2>2. KeptRow(now, entry)
    BY <1>3, <2>1 DEF KeptRow, SameForm
  <2>3. DOMAIN rows' = DOMAIN rows /\ \A i \in DOMAIN rows : rows'[i] = IF i = id THEN entry ELSE rows[i]
    BY <1>2, <1>5 DEF Commit, entry
  <2>4. QED
    BY <1>4, <2>2, <2>3
<1>6. QED
  BY <1>1, <1>4, <1>5

LEMMA RefreshedSecond ==
  ASSUME ScheduleIInv, SecondIInv, ReadsUnedited, NEW r \in Requests, NEW s \in Symbols, Refreshed(r, s)
  PROVE  SecondIInv'
<1> DEFINE task == [TaskOf(r, s) EXCEPT !.at = "done", !.row = NoRow]
<1>1. /\ At(r, s, {"references"})
      /\ (\E error : Works(r, s, Failed(r, s, error), TRUE) /\ rows' = rows) \/ Works(r, s, task, TRUE)
  BY RefreshedDoes DEF Step, Refuse
<1>2. /\ Working(r, s) /\ TaskFields(TaskOf(r, s)) /\ TaskOf(r, s).tries \in Nat
  BY <1>1, AtWork DEF Ended
<1>3. CASE \E error : Works(r, s, Failed(r, s, error), TRUE) /\ rows' = rows
  BY <1>2, <1>3, SecondRefuse
<1>4. CASE Works(r, s, task, TRUE)
  <2>1. TaskFields(task) /\ task.tries \in Nat /\ task.at \in Ended
    BY <1>2 DEF TaskFields, Ended
  <2> HIDE DEF task
  <2>2. DOMAIN rows' = DOMAIN rows /\ \A i \in DOMAIN rows : KeptRow(rows[i], rows'[i])
    BY RefreshedRows
  <2>3. QED
    BY <1>2, <1>4, <2>1, <2>2, SecondTask
<1>5. QED
  BY <1>1, <1>3, <1>4

\* The row that a save writes: an edited one, or a new one that no row it saw asks for.
LEMMA SaveSecond ==
  ASSUME ScheduleIInv, SecondIInv, NEW r \in Requests, NEW s \in Symbols, At(r, s, {"snapshot"}), NEW readable \in BOOLEAN,
         answers \in Markets,
         Commit(RowId(r, s), Snapshot(F(r), Keyed(F(r), Work(r, s)), answers[s], readable))
  PROVE  /\ DOMAIN rows \subseteq DOMAIN rows'
         /\ \A id \in DOMAIN rows : KeptRow(rows[id], rows'[id])
         /\ \A id \in DOMAIN rows' \ DOMAIN rows :
              /\ id[1] = r
              /\ ~rows'[id].edited => RowAsked(rows'[id])
              /\ ~rows'[id].edited /\ FormOf(rows'[id].form).kind \in {"create", "add"}
                   => \A old \in job[r].saw : ~Second(FormOf(rows'[id].form), rows'[id].symbol, rows[old])
<1> DEFINE f == F(r)
           given == Work(r, s)
           entry == Snapshot(f, Keyed(f, given), answers[s], readable)
           id == RowId(r, s)
<1>1. /\ Working(r, s) /\ f.kind # "refresh" /\ f.kind # "drop" /\ AskedBy(f, s, "snapshot", given)
      /\ given.symbol = s /\ given.form = job[r].form /\ RowFields(given)
      /\ PassedCheck(f.kind, "snapshot") => \A old \in job[r].saw : ~Second(f, s, rows[old])
  BY AskedAtWork, AtWork DEF Ended
<1>2. /\ entry.symbol = s /\ entry.form = job[r].form /\ entry.price = given.price
      /\ entry.literal = given.literal /\ entry.edited = given.edited /\ entry.key = KeyOf(f, given)
      /\ entry.qty = IF HasPlan(f) THEN IfGiven(EstimatedQuantity(f, s, answers[s], readable), given.qty) ELSE given.qty
  <2> DEFINE keyed == Keyed(f, given)
  <2>1. /\ RowFields(keyed) /\ keyed.symbol = s /\ keyed.form = job[r].form /\ keyed.price = given.price
        /\ keyed.literal = given.literal /\ keyed.edited = given.edited /\ keyed.key = KeyOf(f, given) /\ keyed.qty = given.qty
    BY <1>1 DEF Keyed, RowFields
  <2> HIDE DEF keyed
  <2>2. QED
    BY <2>1 DEF Snapshot, RowFields, keyed
<1>3. DOMAIN rows' = DOMAIN rows \cup {id} /\ rows'[id] = entry /\ \A i \in DOMAIN rows : i # id => rows'[i] = rows[i]
  BY DEF Commit
<1> HIDE DEF entry
<1>4. f.kind = "edit" => entry.edited
  BY <1>1, <1>2 DEF AskedBy
<1>5. \A i \in DOMAIN rows : KeptRow(rows[i], rows'[i])
  <2>1. ASSUME NEW i \in DOMAIN rows, i # id PROVE KeptRow(rows[i], rows'[i])
    BY <1>3, <2>1 DEF KeptRow
  <2>2. CASE f.kind = "edit"
    BY <1>3, <1>4, <2>1, <2>2 DEF KeptRow
  <2>3. CASE f.kind # "edit"
    <3>1. id = <<r, s, TaskOf(r, s).tries>>
      BY <2>3 DEF RowId, TaskOf
    <3>2. id \notin DOMAIN rows
      <4>1. ASSUME Identified(id) PROVE FALSE
        <5>1. id[1] = r /\ id[2] = s /\ id[3] = TaskOf(r, s).tries
          BY <3>1
        <5> HIDE DEF id
        <5>2. TaskOf(r, s).tries < TaskOf(r, s).tries
          BY <1>1, <4>1, <5>1 DEF Identified, Working
        <5>3. QED
          BY <5>2 DEF ScheduleIInv, JobShape
      <4>2. QED
        BY <4>1 DEF ScheduleIInv, RowsCommitted
    <3>3. QED
      BY <2>1, <3>2
  <2>4. QED
    BY <2>2, <2>3
<1>6. f.kind = "edit" => id \in DOMAIN rows
  BY <1>1 DEF RowId, ScheduleIInv, TargetKept, Working
<1>7. f.kind # "edit" => id[1] = r
  BY DEF RowId
<1>8. FormOf(entry.form) = f
  BY <1>2 DEF F
<1>9. f.kind # "edit" => RowAsked(entry)
  <2>1. given.qty = FormQuantity(f, s) /\ given.price = f.price /\ (~Captures(f) => given.literal = Level(f))
    BY <1>1 DEF AskedBy
  <2>2. StableQuantity(f, s) => entry.qty = FormQuantity(f, s)
    <3>1. StableQuantity(f, s) => EstimatedQuantity(f, s, answers[s], readable) \in {0, FormQuantity(f, s)}
      BY DEF StableQuantity
    <3>2. QED
      BY <1>2, <2>1, <3>1 DEF IfGiven
  <2>3. KeyOf(f, given) = KeyOf(f, entry)
    BY <1>1, <1>2 DEF KeyOf
  <2>4. QED
    BY <1>2, <1>8, <2>1, <2>2, <2>3 DEF RowAsked
<1>10. f.kind \in {"create", "add"} => PassedCheck(f.kind, "snapshot")
  BY DEF PassedCheck
<1> HIDE DEF id
<1>11. QED
  BY <1>1, <1>2, <1>3, <1>5, <1>6, <1>7, <1>8, <1>9, <1>10

LEMMA SavedSecond ==
  ASSUME ScheduleIInv, SecondIInv, NEW r \in Requests, NEW s \in Symbols, NEW readable \in BOOLEAN, Saved(r, s, readable)
  PROVE  SecondIInv'
<1> DEFINE task == [TaskOf(r, s) EXCEPT !.at = "done", !.row = NoRow]
<1>1. /\ At(r, s, {"snapshot"}) /\ Works(r, s, task, readable)
      /\ Commit(RowId(r, s), Snapshot(F(r), Keyed(F(r), Work(r, s)), answers[s], readable))
  BY DEF Saved
<1>2. Working(r, s) /\ TaskFields(TaskOf(r, s)) /\ TaskOf(r, s).tries \in Nat /\ answers \in Markets
  BY <1>1, AtWork DEF Ended, ScheduleIInv
<1>3. TaskFields(task) /\ task.tries \in Nat /\ task.at \in Ended
  BY <1>2 DEF TaskFields, Ended
<1> HIDE DEF task
<1>4. /\ DOMAIN rows \subseteq DOMAIN rows'
      /\ \A id \in DOMAIN rows : KeptRow(rows[id], rows'[id])
      /\ \A id \in DOMAIN rows' \ DOMAIN rows :
           /\ id[1] = r
           /\ ~rows'[id].edited => RowAsked(rows'[id])
           /\ ~rows'[id].edited /\ FormOf(rows'[id].form).kind \in {"create", "add"}
                => \A old \in job[r].saw : ~Second(FormOf(rows'[id].form), rows'[id].symbol, rows[old])
  BY <1>1, <1>2, SaveSecond
<1>5. QED
  BY <1>1, <1>2, <1>3, <1>4, SecondTask

\* A call that failed: a batch starts again from the form, the row of a drop batch strays.
LEMMA FaultAsked ==
  ASSUME ScheduleIInv, SecondIInv, NEW r \in Requests, NEW s \in Symbols,
         At(r, s, {"preflight", "baseline", "checks", "references", "snapshot"}), NEW transient
  PROVE  LET task == AfterFault(r, s, transient) IN
         /\ TaskFields(task) /\ task.tries \in Nat
         /\ task.at \notin Ended /\ F(r).kind # "refresh" => AskedBy(F(r), s, task.at, task.row)
         /\ task.at \notin Ended => ~PassedCheck(F(r).kind, task.at)
<1> DEFINE task == TaskOf(r, s)
           f == F(r)
           again == [task EXCEPT !.at = "baseline", !.tries = task.tries + 1, !.row = DraftOf(f, s)]
           stray == [task EXCEPT !.at = "stray", !.error = "fault"]
           after == AfterFault(r, s, transient)
<1>1. /\ TaskFields(task) /\ task.tries \in Nat
      /\ f.kind # "refresh" => AskedBy(f, s, task.at, Work(r, s))
  BY AskedAtWork, AtWork DEF Ended
<1>2. \/ f.kind = "batch" /\ after = again
      \/ f.kind = "drop" /\ task.at = "references" /\ after = stray
      \/ after = Failed(r, s, "fault")
  BY DEF AfterFault
<1>3. TaskFields(after) /\ after.tries \in Nat
  BY FaultFits DEF TaskFits
<1>4. CASE f.kind = "batch" /\ after = again
  <2>1. again.at = "baseline" /\ again.row = DraftOf(f, s)
    BY <1>1 DEF TaskFields
  <2>2. /\ DraftOf(f, s).qty = FormQuantity(f, s) /\ DraftOf(f, s).price = f.price
        /\ DraftOf(f, s).literal = f.level
    BY DEF DraftOf, NoRow
  <2> HIDE DEF again
  <2>3. AskedBy(f, s, again.at, again.row)
    BY <1>4, <2>1, <2>2 DEF AskedBy
  <2>4. QED
    BY <1>3, <1>4, <2>1, <2>3 DEF PassedCheck
<1>5. CASE f.kind = "drop" /\ task.at = "references" /\ after = stray
  <2>1. stray.at = "stray" /\ stray.row = Work(r, s)
    BY <1>1 DEF TaskFields, Work, TaskOf
  <2> HIDE DEF stray
  <2>2. AskedBy(f, s, stray.at, stray.row)
    BY <1>1, <1>5, <2>1 DEF AskedBy
  <2>3. QED
    BY <1>3, <1>5, <2>1, <2>2 DEF PassedCheck
<1>6. CASE after = Failed(r, s, "fault")
  <2>1. after.at \in Ended
    BY <1>1, <1>6, FailFits DEF Ended
  <2>2. QED
    BY <1>3, <2>1
<1>7. QED
  BY <1>2, <1>4, <1>5, <1>6

LEMMA FaultSecond ==
  ASSUME ScheduleIInv, SecondIInv, NEW r \in Requests, NEW s \in Symbols, NEW transient \in BOOLEAN, Fault(r, s, transient)
  PROVE  SecondIInv'
<1> DEFINE task == AfterFault(r, s, transient)
<1>1. /\ At(r, s, {"preflight", "baseline", "checks", "references"}) /\ rows' = rows /\ Works(r, s, task, FALSE)
  BY DEF Fault
<1>2. At(r, s, {"preflight", "baseline", "checks", "references", "snapshot"})
  BY <1>1 DEF At
<1>3. Working(r, s)
  BY <1>1, AtWork DEF Ended
<1>4. /\ TaskFields(task) /\ task.tries \in Nat
      /\ task.at \notin Ended /\ F(r).kind # "refresh" => AskedBy(F(r), s, task.at, task.row)
      /\ task.at \notin Ended => ~PassedCheck(F(r).kind, task.at)
  BY <1>2, FaultAsked
<1> HIDE DEF task
<1>5. \A id \in DOMAIN rows : KeptRow(rows[id], rows'[id])
  BY <1>1 DEF KeptRow
<1>6. QED
  BY <1>1, <1>3, <1>4, <1>5, SecondTask

LEMMA CommitFaultSecond ==
  ASSUME ScheduleIInv, SecondIInv, NEW r \in Requests, NEW s \in Symbols, NEW made \in BOOLEAN, CommitFault(r, s, made)
  PROVE  SecondIInv'
<1> DEFINE task == AfterFault(r, s, TRUE)
<1>1. /\ At(r, s, {"snapshot"}) /\ Works(r, s, task, FALSE)
      /\ \/ rows' = rows
         \/ Commit(RowId(r, s), Snapshot(F(r), Keyed(F(r), Work(r, s)), answers[s], TRUE))
  BY DEF CommitFault
<1>2. At(r, s, {"preflight", "baseline", "checks", "references", "snapshot"})
  BY <1>1 DEF At
<1>3. Working(r, s) /\ answers \in Markets
  BY <1>1, AtWork DEF Ended, ScheduleIInv
<1>4. /\ TaskFields(task) /\ task.tries \in Nat
      /\ task.at \notin Ended /\ F(r).kind # "refresh" => AskedBy(F(r), s, task.at, task.row)
      /\ task.at \notin Ended => ~PassedCheck(F(r).kind, task.at)
  BY <1>2, FaultAsked
<1> HIDE DEF task
<1>5. CASE rows' = rows
  <2>1. \A id \in DOMAIN rows : KeptRow(rows[id], rows'[id])
    BY <1>5 DEF KeptRow
  <2>2. QED
    BY <1>1, <1>3, <1>4, <1>5, <2>1, SecondTask
<1>6. CASE Commit(RowId(r, s), Snapshot(F(r), Keyed(F(r), Work(r, s)), answers[s], TRUE))
  <2>1. /\ DOMAIN rows \subseteq DOMAIN rows'
        /\ \A id \in DOMAIN rows : KeptRow(rows[id], rows'[id])
        /\ \A id \in DOMAIN rows' \ DOMAIN rows :
             /\ id[1] = r
             /\ ~rows'[id].edited => RowAsked(rows'[id])
             /\ ~rows'[id].edited /\ FormOf(rows'[id].form).kind \in {"create", "add"}
                  => \A old \in job[r].saw : ~Second(FormOf(rows'[id].form), rows'[id].symbol, rows[old])
    BY <1>1, <1>3, <1>6, SaveSecond
  <2>2. QED
    BY <1>1, <1>3, <1>4, <2>1, SecondTask
<1>7. QED
  BY <1>1, <1>5, <1>6

LEMMA RequestOfRow ==
  ASSUME ScheduleIInv
  PROVE  \A id \in DOMAIN rows : id[1] \in Requests
BY DEF ScheduleIInv, RowsCommitted, Identified

\* A step of a whole request that leaves the rows.
LEMMA SecondRequest ==
  ASSUME ScheduleIInv, SecondIInv, rows' = rows, NEW r \in Requests,
         \A p \in Requests : p # r => job'[p] = job[p],
         \A id \in DOMAIN rows : id[1] # r,
         job'[r].saw \subseteq DOMAIN rows,
         \A s \in Symbols : Working(r, s)' =>
           /\ F(r)'.kind # "refresh" => AskedBy(F(r)', s, TaskOf(r, s)'.at, Work(r, s)')
           /\ PassedCheck(F(r)'.kind, TaskOf(r, s)'.at) => \A old \in job'[r].saw : ~Second(F(r)', s, rows[old])
  PROVE  SecondIInv'
<1> DEFINE R == {r}
<1>1. R \in SUBSET Requests /\ \A p : p \in R <=> p = r
  OBVIOUS
<1>2. \A p \in Requests : p \notin R =>
        /\ job'[p].stage = job[p].stage /\ job'[p].form = job[p].form /\ job'[p].saw = job[p].saw
        /\ \A t \in Symbols : TaskOf(p, t)' = TaskOf(p, t)
  BY DEF TaskOf
<1>3. \A id \in DOMAIN rows : KeptRow(rows[id], rows'[id])
  BY DEF KeptRow
<1> HIDE DEF R
<1>4. QED
  BY <1>1, <1>2, <1>3, RequestOfRow, SecondKeeps

LEMMA BeginSecond ==
  ASSUME ScheduleIInv, SecondIInv, NEW r \in Requests, NEW name \in DOMAIN Forms, NEW target, Begin(r, Forms[name], target)
  PROVE  SecondIInv'
<1> DEFINE f == Forms[name]
           first(s) == [NewTask EXCEPT !.at = FirstStage(f), !.row = IF f.kind = "refresh" THEN rows[target] ELSE DraftOf(f, s)]
           tasks == [s \in Symbols |->
             IF s \notin f.symbols THEN NewTask
             ELSE IF RefusedAtOnce(f, s, target) THEN [NewTask EXCEPT !.at = "failed", !.error = "form"]
             ELSE first(s)]
           j == [stage |-> IF f.kind = "batch" /\ NeedsPreflight(f) THEN "preflight" ELSE "running",
                 form |-> f.name, target |-> target, saw |-> DOMAIN rows, steady |-> TRUE, task |-> tasks]
<1>1. job[r].stage = "idle" /\ rows' = rows /\ job' = [job EXCEPT ![r] = j]
  BY DEF Begin
<1>2. DOMAIN job = Requests
  BY DEF ScheduleIInv, JobShape
<1>3. f.name = name /\ Forms[f.name] = f
  BY SchedulesAssumption
<1>4. \A s \in Symbols : first(s).at = FirstStage(f) /\ (f.kind # "refresh" => first(s).row = DraftOf(f, s))
  BY DEF NewTask
<1> HIDE DEF first
<1>5. \A s \in Symbols : s \in f.symbols /\ tasks[s].at \notin Ended => tasks[s] = first(s)
  BY DEF NewTask, Ended
<1> HIDE DEF tasks
<1>6. job'[r] = j /\ \A p \in Requests : p # r => job'[p] = job[p]
  BY <1>1, <1>2
<1>7. /\ job'[r].saw = DOMAIN rows /\ F(r)' = f /\ \A s \in Symbols : TaskOf(r, s)' = tasks[s] /\ Work(r, s)' = tasks[s].row
  BY <1>3, <1>6 DEF F, FormOf, TaskOf, Work
<1>8. \A id \in DOMAIN rows : id[1] # r
  BY <1>1, NoRowYet
<1> HIDE DEF j
<1>9. ASSUME NEW s \in Symbols, Working(r, s)'
      PROVE  /\ f.kind # "refresh" => AskedBy(f, s, TaskOf(r, s)'.at, Work(r, s)')
             /\ ~PassedCheck(f.kind, TaskOf(r, s)'.at)
  <2>1. tasks[s] = first(s)
    BY <1>5, <1>7, <1>9 DEF Working
  <2>2. CASE f.kind = "refresh"
    BY <2>2 DEF PassedCheck
  <2>3. CASE f.kind # "refresh"
    <3>1. FirstStage(f) \in {"queued", "baseline", "preflight"}
      BY <2>3 DEF FirstStage
    <3>2. TaskOf(r, s)'.at = FirstStage(f) /\ Work(r, s)' = DraftOf(f, s)
      BY <1>4, <1>7, <2>1, <2>3
    <3>3. /\ DraftOf(f, s).qty = FormQuantity(f, s) /\ DraftOf(f, s).price = f.price
          /\ DraftOf(f, s).literal = f.level
      BY DEF DraftOf, NoRow
    <3> HIDE DEF f
    <3>4. QED
      BY <3>1, <3>2, <3>3 DEF AskedBy, PassedCheck
  <2>4. QED
    BY <2>2, <2>3
<1> HIDE DEF f
<1>10. QED
  BY <1>1, <1>6, <1>7, <1>8, <1>9, SecondRequest

LEMMA BatchPreflightedSecond ==
  ASSUME ScheduleIInv, SecondIInv, NEW r \in Requests, BatchPreflighted(r)
  PROVE  SecondIInv'
<1> DEFINE gate == PlanStatus(F(r).plan, F(r).side, "")
           verdict == IF gate # "ready" THEN [status |-> gate, named |-> {}]
                      ELSE Preflight(F(r).plan, "", answers, Held, FALSE, F(r).drop)
           blamed == IF verdict.named = {} THEN F(r).symbols ELSE F(r).symbols \cap verdict.named
           tasks == [s \in Symbols |-> IF s \in blamed THEN Failed(r, s, verdict.status) ELSE TaskOf(r, s)]
           running == [job[r] EXCEPT !.stage = "running"]
           done == [job[r] EXCEPT !.stage = "done", !.task = tasks]
<1>1. job[r].stage = "preflight" /\ rows' = rows
      /\ (job' = [job EXCEPT ![r] = running] \/ job' = [job EXCEPT ![r] = done])
  <2>1. /\ job[r].stage = "preflight" /\ rows' = rows
        /\ job' = IF verdict.status = "ready" THEN [job EXCEPT ![r].stage = "running"]
                  ELSE [job EXCEPT ![r].stage = "done", ![r].task = tasks]
    BY DEF BatchPreflighted
  <2> HIDE DEF verdict, tasks
  <2>2. CASE verdict.status = "ready"
    BY <2>1, <2>2
  <2>3. CASE verdict.status # "ready"
    BY <2>1, <2>3
  <2>4. QED
    BY <2>2, <2>3
<1> HIDE DEF tasks
<1>2. DOMAIN job = Requests /\ JobFields(job[r]) /\ F(r).kind = "batch"
  BY <1>1 DEF ScheduleIInv, JobShape
<1>3. /\ running.saw = job[r].saw /\ running.form = job[r].form /\ running.task = job[r].task
      /\ done.saw = job[r].saw /\ done.form = job[r].form /\ done.stage = "done"
  BY <1>2 DEF JobFields
<1> HIDE DEF running, done
<1>4. /\ job'[r] = running \/ job'[r] = done
      /\ \A p \in Requests : p # r => job'[p] = job[p]
  BY <1>1, <1>2
<1>5. F(r)' = F(r) /\ job'[r].saw = job[r].saw
  BY <1>3, <1>4 DEF F
<1>6. \A id \in DOMAIN rows : id[1] # r
  BY <1>1, NoRowYet
<1>7. ASSUME NEW s \in Symbols, Working(r, s)'
      PROVE  AskedBy(F(r), s, TaskOf(r, s)'.at, Work(r, s)')
  <2>1. job'[r] = running
    BY <1>3, <1>4, <1>7 DEF Working
  <2>2. TaskOf(r, s)' = TaskOf(r, s) /\ Work(r, s)' = Work(r, s)
    BY <1>3, <2>1 DEF TaskOf, Work
  <2>3. Working(r, s)
    BY <1>1, <1>5, <1>7, <2>2 DEF Working
  <2>4. QED
    BY <1>2, <2>2, <2>3 DEF SecondIInv, WorkAsked
<1>8. \A at : ~PassedCheck(F(r).kind, at)
  BY <1>2 DEF PassedCheck
<1>9. job[r].saw \subseteq DOMAIN rows
  BY DEF SecondIInv, NoneBefore
<1>10. QED
  BY <1>1, <1>4, <1>5, <1>6, <1>7, <1>8, <1>9, SecondRequest

LEMMA DropCommitSecond ==
  ASSUME ScheduleIInv, SecondIInv, NEW r \in Requests, DropCommit(r)
  PROVE  SecondIInv'
<1> DEFINE flushed == {s \in F(r).symbols : job[r].task[s].at \in {"flushed", "stray"}}
           kept == IF \E s \in flushed : job[r].task[s].at = "flushed" THEN flushed ELSE {}
           made == {<<r, s, 1>> : s \in kept}
           tasks == [s \in Symbols |-> [TaskOf(r, s) EXCEPT !.row = NoRow,
                       !.at = CASE @ = "flushed" -> "done" [] @ = "stray" -> "failed" [] OTHER -> @]]
           j == [job[r] EXCEPT !.stage = "done", !.task = tasks]
           R == {r}
<1>1. /\ job[r].stage = "running" /\ F(r).kind = "drop"
      /\ rows' = [id \in DOMAIN rows \cup made |-> IF id \in made THEN Work(r, id[2]) ELSE rows[id]]
      /\ job' = [job EXCEPT ![r] = j]
  BY DEF DropCommit
<1> HIDE DEF tasks
<1>2. DOMAIN job = Requests /\ JobFields(job[r]) /\ F(r).symbols \subseteq Symbols
  BY <1>1, FormFacts DEF ScheduleIInv, JobShape
<1>3. j.stage = "done" /\ j.saw = job[r].saw
  BY <1>2 DEF JobFields
<1> HIDE DEF j
<1>4. job'[r] = j /\ \A p \in Requests : p # r => job'[p] = job[p]
  BY <1>1, <1>2
<1>5. \A id \in DOMAIN rows : id[1] # r
  BY <1>1, NoRowYet
<1>6. \A id \in made : id[1] = r /\ id[2] \in flushed
  OBVIOUS
<1>7. /\ DOMAIN rows' = DOMAIN rows \cup made /\ \A id \in DOMAIN rows : rows'[id] = rows[id]
      /\ \A id \in made : rows'[id] = Work(r, id[2])
  BY <1>1, <1>5, <1>6
<1> HIDE DEF made, kept
<1>8. ASSUME NEW id \in made
      PROVE  id[1] = r /\ RowAsked(rows'[id]) /\ FormOf(rows'[id].form).kind = "drop"
  <2> DEFINE s == id[2]
  <2>1. s \in Symbols /\ TaskOf(r, s).at \in {"flushed", "stray"} /\ s \in F(r).symbols /\ rows'[id] = Work(r, s)
    BY <1>2, <1>6, <1>7, <1>8 DEF TaskOf
  <2> HIDE DEF s
  <2>2. Working(r, s)
    BY <1>1, <2>1 DEF Working, Ended
  <2>3. AskedBy(F(r), s, TaskOf(r, s).at, Work(r, s)) /\ Work(r, s).symbol = s /\ Work(r, s).form = job[r].form
    BY <1>1, <2>1, <2>2 DEF SecondIInv, WorkAsked, ScheduleIInv, WorkKept
  <2>4. FormOf(Work(r, s).form) = F(r)
    BY <2>3 DEF F
  <2>5. Captures(F(r))
    BY <1>1 DEF Captures
  <2>6. RowAsked(Work(r, s))
    BY <2>3, <2>4, <2>5 DEF RowAsked, AskedBy
  <2>7. QED
    BY <1>1, <1>6, <2>1, <2>4, <2>6
<1>9. R \in SUBSET Requests /\ \A p : p \in R <=> p = r
  OBVIOUS
<1>10. \A p \in Requests : p \notin R =>
         /\ job'[p].stage = job[p].stage /\ job'[p].form = job[p].form /\ job'[p].saw = job[p].saw
         /\ \A t \in Symbols : TaskOf(p, t)' = TaskOf(p, t)
  BY <1>4 DEF TaskOf
<1>11. \A id \in DOMAIN rows : KeptRow(rows[id], rows'[id])
  BY <1>7 DEF KeptRow
<1>12. \A s \in Symbols : ~Working(r, s)'
  BY <1>3, <1>4 DEF Working
<1>13. job'[r].saw \subseteq DOMAIN rows
  BY <1>3, <1>4 DEF SecondIInv, NoneBefore
<1>14. \A id \in DOMAIN rows' \ DOMAIN rows :
         /\ id[1] \in R
         /\ ~rows'[id].edited => RowAsked(rows'[id])
         /\ ~(FormOf(rows'[id].form).kind \in {"create", "add"})
  BY <1>7, <1>8, <1>9
<1> HIDE DEF R
<1>15. QED
  BY <1>5, <1>7, <1>9, <1>10, <1>11, <1>12, <1>13, <1>14, RequestOfRow, SecondKeeps

LEMMA MoveSecond ==
  ASSUME ScheduleIInv, SecondIInv, NEW m \in Markets, Move(m)
  PROVE  SecondIInv'
<1>1. rows' = rows /\ job' = [r \in Requests |-> [job[r] EXCEPT !.steady = job[r].steady /\ job[r].stage = "idle"]]
  BY DEF Move
<1>2. ASSUME NEW p \in Requests
      PROVE  /\ job'[p].stage = job[p].stage /\ job'[p].form = job[p].form /\ job'[p].saw = job[p].saw
             /\ \A t \in Symbols : TaskOf(p, t)' = TaskOf(p, t)
  <2> DEFINE j == [job[p] EXCEPT !.steady = job[p].steady /\ job[p].stage = "idle"]
  <2>1. JobFields(job[p])
    BY DEF ScheduleIInv, JobShape
  <2>2. j.stage = job[p].stage /\ j.form = job[p].form /\ j.saw = job[p].saw /\ j.task = job[p].task
    BY <2>1 DEF JobFields
  <2>3. job'[p] = j
    BY <1>1
  <2> HIDE DEF j
  <2>4. QED
    BY <2>2, <2>3 DEF TaskOf
<1>3. \A id \in DOMAIN rows : KeptRow(rows[id], rows'[id])
  BY <1>1 DEF KeptRow
<1>4. {} \in SUBSET Requests /\ \A p : p \notin {}
  OBVIOUS
<1>5. QED
  BY <1>1, <1>2, <1>3, <1>4, RequestOfRow, SecondKeeps

LEMMA SecondInductiveInit == ScheduleInit => SecondIInv /\ ReadsUnedited
<1> SUFFICES ASSUME ScheduleInit PROVE SecondIInv /\ ReadsUnedited
  OBVIOUS
<1>1. DOMAIN rows = {} /\ \A r \in Requests : job[r] = NewJob
  BY DEF ScheduleInit
<1>2. NewJob.stage = "idle" /\ NewJob.saw = {}
  BY DEF NewJob
<1> HIDE DEF NewJob
<1>3. \A r \in Requests : job[r].stage = "idle" /\ job[r].saw = {}
  BY <1>1, <1>2
<1>4. QED
  BY <1>1, <1>3 DEF SecondIInv, WorkAsked, RowsAsked, NoneBefore, NoSecondOrder, ReadsUnedited, Reading, Working

\* No step takes back that a row was edited, or gives one that was not another form.
LEMMA RowsKept ==
  ASSUME ScheduleIInv, SecondIInv, ReadsUnedited, ScheduleNext
  PROVE  DOMAIN rows \subseteq DOMAIN rows' /\ \A id \in DOMAIN rows : KeptRow(rows[id], rows'[id])
<1> DEFINE Goal == DOMAIN rows \subseteq DOMAIN rows' /\ \A id \in DOMAIN rows : KeptRow(rows[id], rows'[id])
<1>1. rows' = rows => Goal
  BY DEF KeptRow
<1>2. ASSUME NEW r \in Requests, DropCommit(r) PROVE Goal
  <2>1. \A id \in DOMAIN rows : id[1] # r
    BY <1>2, NoRowYet DEF DropCommit
  <2>2. PICK made : /\ \A id \in made : id[1] = r
                    /\ rows' = [id \in DOMAIN rows \cup made |-> IF id \in made THEN Work(r, id[2]) ELSE rows[id]]
    <3> DEFINE flushed == {s \in F(r).symbols : job[r].task[s].at \in {"flushed", "stray"}}
               kept == IF \E s \in flushed : job[r].task[s].at = "flushed" THEN flushed ELSE {}
               made == {<<r, s, 1>> : s \in kept}
    <3>1. rows' = [id \in DOMAIN rows \cup made |-> IF id \in made THEN Work(r, id[2]) ELSE rows[id]]
      BY <1>2 DEF DropCommit
    <3> HIDE DEF kept
    <3>2. \A id \in made : id[1] = r
      OBVIOUS
    <3> HIDE DEF made
    <3>3. QED
      BY <3>1, <3>2
  <2>3. DOMAIN rows \subseteq DOMAIN rows' /\ \A id \in DOMAIN rows : rows'[id] = rows[id]
    BY <2>1, <2>2
  <2>4. QED
    BY <2>3 DEF KeptRow
<1>3. ASSUME NEW r \in Requests, NEW s \in Symbols, Refreshed(r, s) PROVE Goal
  BY <1>3, RefreshedRows
<1>4. ASSUME NEW r \in Requests, NEW s \in Symbols, NEW b \in BOOLEAN, Saved(r, s, b) \/ CommitFault(r, s, b)
      PROVE  Goal
  <2>1. At(r, s, {"snapshot"}) /\ answers \in Markets
    BY <1>4 DEF Saved, CommitFault, ScheduleIInv
  <2>2. \/ rows' = rows
        \/ \E readable \in BOOLEAN : Commit(RowId(r, s), Snapshot(F(r), Keyed(F(r), Work(r, s)), answers[s], readable))
    BY <1>4 DEF Saved, CommitFault
  <2>3. QED
    BY <1>1, <2>1, <2>2, SaveSecond
<1>5. \/ rows' = rows
      \/ \E r \in Requests : DropCommit(r)
      \/ \E r \in Requests, s \in Symbols : Refreshed(r, s) \/ \E b \in BOOLEAN : Saved(r, s, b) \/ CommitFault(r, s, b)
  <2>1. \A r \in Requests, name \in DOMAIN Forms : \A target : Begin(r, Forms[name], target) => rows' = rows
    BY DEF Begin
  <2>2. \A r \in Requests : BatchPreflighted(r) => rows' = rows
    BY DEF BatchPreflighted
  <2>3. \A r \in Requests, s \in Symbols : NextSymbol(r, s) \/ Baselined(r, s) => rows' = rows
    BY DEF NextSymbol, Baselined
  <2>4. \A r \in Requests, s \in Symbols : Checked(r, s) \/ Referenced(r, s) => rows' = rows
    BY DEF Checked, Referenced
  <2>5. \A r \in Requests, s \in Symbols, b \in BOOLEAN : Preflighted(r, s, b) \/ Fault(r, s, b) => rows' = rows
    BY DEF Preflighted, Fault
  <2>6. \A m \in Markets : Move(m) => rows' = rows
    BY DEF Move
  <2>7. QED
    BY <2>1, <2>2, <2>3, <2>4, <2>5, <2>6 DEF ScheduleNext
<1> HIDE DEF Goal
<1>6. Goal
  BY <1>1, <1>2, <1>3, <1>4, <1>5
<1>7. QED
  BY <1>6 DEF Goal

LEMMA ReadsUneditedStep ==
  ASSUME ScheduleIInv, SecondIInv, ReadsUnedited, [ScheduleNext]_scheduleVars
  PROVE  ReadsUnedited'
<1>1. CASE UNCHANGED scheduleVars
  BY <1>1 DEF scheduleVars, ReadsUnedited, Reading, Working, Work, TaskOf, F, SameForm
<1>2. CASE ScheduleNext
  <2> SUFFICES ASSUME NEW r \in Requests, NEW s \in Symbols, Reading(r, s)'
               PROVE  SameForm(rows'[job'[r].target], Work(r, s)')
    BY DEF ReadsUnedited, SameForm
  <2>1. CASE Reading(r, s) /\ Work(r, s)' = Work(r, s) /\ job'[r].target = job[r].target
    <3>1. job[r].target \in DOMAIN rows
      BY <2>1 DEF ScheduleIInv, TargetKept, Reading, Working
    <3>2. KeptRow(rows[job[r].target], rows'[job[r].target])
      BY <1>2, <3>1, RowsKept
    <3>3. SameForm(rows[job[r].target], Work(r, s))
      BY <2>1 DEF ReadsUnedited
    <3>4. QED
      BY <2>1, <3>2, <3>3 DEF KeptRow, SameForm
  <2>2. CASE rows' = rows /\ Work(r, s)' = rows[job'[r].target]
    BY <2>2 DEF SameForm
  <2>3. QED
    BY <1>2, <2>1, <2>2, ReadingStep
<1>3. QED
  BY <1>1, <1>2

LEMMA SecondInductiveStep == ScheduleIInv /\ SecondIInv /\ ReadsUnedited /\ [ScheduleNext]_scheduleVars => SecondIInv'
<1> SUFFICES ASSUME ScheduleIInv, SecondIInv, ReadsUnedited, [ScheduleNext]_scheduleVars PROVE SecondIInv'
  OBVIOUS
<1>1. ASSUME NEW r \in Requests, NEW name \in DOMAIN Forms, NEW target \in DOMAIN rows \cup {<<>>},
             Begin(r, Forms[name], target)
      PROVE  SecondIInv'
  BY <1>1, BeginSecond
<1>2. ASSUME NEW r \in Requests, BatchPreflighted(r) PROVE SecondIInv'
  BY <1>2, BatchPreflightedSecond
<1>3. ASSUME NEW r \in Requests, DropCommit(r) PROVE SecondIInv'
  BY <1>3, DropCommitSecond
<1>4. ASSUME NEW r \in Requests, NEW s \in Symbols,
             \/ NextSymbol(r, s) \/ Baselined(r, s) \/ Checked(r, s) \/ Referenced(r, s) \/ Refreshed(r, s)
      PROVE  SecondIInv'
  BY <1>4, NextSymbolSecond, BaselinedSecond, CheckedSecond, ReferencedSecond, RefreshedSecond
<1>5. ASSUME NEW r \in Requests, NEW s \in Symbols, NEW b \in BOOLEAN,
             Preflighted(r, s, b) \/ Saved(r, s, b) \/ Fault(r, s, b) \/ CommitFault(r, s, b)
      PROVE  SecondIInv'
  BY <1>5, PreflightedSecond, SavedSecond, FaultSecond, CommitFaultSecond
<1>6. ASSUME NEW m \in Markets, Move(m) PROVE SecondIInv'
  BY <1>6, MoveSecond
<1>7. CASE UNCHANGED scheduleVars
  <2>1. rows' = rows /\ job' = job
    BY <1>7 DEF scheduleVars
  <2>2. \A p \in Requests :
          /\ job'[p].stage = job[p].stage /\ job'[p].form = job[p].form /\ job'[p].saw = job[p].saw
          /\ \A t \in Symbols : TaskOf(p, t)' = TaskOf(p, t)
    BY <2>1 DEF TaskOf
  <2>3. \A id \in DOMAIN rows : KeptRow(rows[id], rows'[id])
    BY <2>1 DEF KeptRow
  <2>4. {} \in SUBSET Requests /\ \A p : p \notin {}
    OBVIOUS
  <2>5. QED
    BY <2>1, <2>2, <2>3, <2>4, RequestOfRow, SecondKeeps
<1>8. QED
  BY <1>1, <1>2, <1>3, <1>4, <1>5, <1>6, <1>7 DEF ScheduleNext

\* A request to create an order makes no second one of an order that was there when it began,
\* through every await, failed call and change of the market in between
\* (_find_duplicate_scheduled_order).
THEOREM SecondEver == ScheduleSpec => []NoSecondOrder
<1>1. SecondIInv => NoSecondOrder
  BY DEF SecondIInv
<1>2. QED
  BY <1>1, SecondInductiveInit, SecondInductiveStep, ReadsUneditedStep, ScheduleInvariant, PTL DEF ScheduleSpec

-----------------------------------------------------------------------------
(* Types of the requests.                                                  *)

Fits(task) == task.at \in Stages /\ task.tries \in 1..Attempts
TaskTypes == \A r \in Requests, s \in Symbols : Fits(TaskOf(r, s))
RowTypes == \A id \in DOMAIN rows : rows[id].symbol = id[2] /\ id[2] \in FormOf(rows[id].form).symbols
\* An edit or refresh is of an order of its symbol.
TargetTypes ==
  \A r \in Requests : job[r].stage # "idle" /\ F(r).kind \in {"edit", "refresh"} => job[r].target[2] \in F(r).symbols
ScheduleTypes == events \in 0..MaxEvents /\ TaskTypes /\ RowTypes /\ TargetTypes
\* So is what a refresh has read of it.
ReadTypes ==
  \A r \in Requests, s \in Symbols : Reading(r, s) =>
    Work(r, s).symbol = job[r].target[2] /\ job[r].target[2] \in FormOf(Work(r, s).form).symbols

LEMMA TypesOfTask ==
  ASSUME ScheduleIInv, ScheduleTypes, NEW r \in Requests, NEW s \in Symbols, NEW task, TaskFields(task), Fits(task),
         NEW steady \in BOOLEAN, Works(r, s, task, steady), events' \in 0..MaxEvents, RowTypes'
  PROVE  ScheduleTypes'
<1>1. task.tries \in Nat
  BY DEF Fits, Attempts
<1>2. OnlyTask(r, s, task, steady)
  BY <1>1, WorksOnly DEF ScheduleIInv
<1>3. TaskTypes'
  <2> SUFFICES ASSUME NEW p \in Requests, NEW t \in Symbols PROVE Fits(TaskOf(p, t)')
    BY DEF TaskTypes, Fits
  <2>1. QED
    BY <1>2 DEF OnlyTask, ScheduleTypes, TaskTypes
<1>4. TargetTypes'
  <2>1. \A p \in Requests : F(p)' = F(p) /\ job'[p].stage = job[p].stage /\ job'[p].target = job[p].target
    BY <1>2 DEF OnlyTask, F
  <2>2. QED
    BY <2>1 DEF ScheduleTypes, TargetTypes
<1>5. QED
  BY <1>3, <1>4 DEF ScheduleTypes

LEMMA FailedFits ==
  ASSUME NEW r, NEW s, TaskFields(TaskOf(r, s)), Fits(TaskOf(r, s)), NEW error
  PROVE  TaskFields(Failed(r, s, error)) /\ Fits(Failed(r, s, error))
<1>1. /\ TaskFields(Failed(r, s, error)) /\ Failed(r, s, error).at = "failed"
      /\ Failed(r, s, error).tries = TaskOf(r, s).tries
  BY DEF TaskFields, Failed
<1>2. QED
  BY <1>1 DEF Fits, Stages, Ended

LEMMA TypesOfRefuse ==
  ASSUME ScheduleIInv, ScheduleTypes, NEW r \in Requests, NEW s \in Symbols, NEW error, Refuse(r, s, error),
         events' = events, rows' = rows
  PROVE  ScheduleTypes'
<1>1. TaskFields(TaskOf(r, s)) /\ Fits(TaskOf(r, s)) /\ RowTypes' /\ events' \in 0..MaxEvents
  BY DEF ScheduleIInv, JobShape, ScheduleTypes, TaskTypes, RowTypes
<1>2. QED
  BY <1>1, FailedFits, TypesOfTask DEF Refuse

LEMMA TypesOfStep ==
  ASSUME ScheduleIInv, ScheduleTypes, NEW r \in Requests, NEW s \in Symbols, NEW at \in Stages, NEW entry,
         Step(r, s, at, entry), events' = events, RowTypes'
  PROVE  ScheduleTypes'
<1> DEFINE task == [TaskOf(r, s) EXCEPT !.at = at, !.row = entry]
<1>1. TaskFields(TaskOf(r, s)) /\ Fits(TaskOf(r, s)) /\ events' \in 0..MaxEvents
  BY DEF ScheduleIInv, JobShape, ScheduleTypes, TaskTypes
<1>2. Works(r, s, task, TRUE)
  BY DEF Step
<1>3. TaskFields(task) /\ task.at = at /\ task.tries = TaskOf(r, s).tries
  BY <1>1 DEF TaskFields
<1> HIDE DEF task
<1>4. Fits(task)
  BY <1>1, <1>3 DEF Fits
<1>5. QED
  BY <1>1, <1>2, <1>3, <1>4, TypesOfTask

LEMMA NextSymbolTypes ==
  ASSUME ScheduleIInv, ScheduleTypes, NEW r \in Requests, NEW s \in Symbols, NextSymbol(r, s)
  PROVE  ScheduleTypes'
<1>1. Step(r, s, "baseline", Work(r, s)) /\ events' = events /\ rows' = rows
  BY DEF NextSymbol
<1>2. "baseline" \in Stages /\ RowTypes'
  BY <1>1 DEF ScheduleTypes, RowTypes, Stages
<1>3. QED
  BY <1>1, <1>2, TypesOfStep

LEMMA BaselinedTypes ==
  ASSUME ScheduleIInv, ScheduleTypes, NEW r \in Requests, NEW s \in Symbols, Baselined(r, s)
  PROVE  ScheduleTypes'
<1>1. /\ events' = events /\ rows' = rows
      /\ \/ Refuse(r, s, "data")
         \/ \E entry : \E at \in {"skipped", "preflight", "checks"} : Step(r, s, at, entry)
  <2> DEFINE entry == Based(F(r), Work(r, s), answers[s])
             captures == Captures(F(r))
             available == BaselineAvailable(answers[s], F(r).drop)
             twice == F(r).kind = "add" /\ Duplicate(F(r), entry)
  <2>1. /\ events' = events /\ rows' = rows
        /\ CASE captures /\ ~available -> Refuse(r, s, "data")
             [] captures => available ->
                  IF twice THEN Step(r, s, "skipped", entry)
                  ELSE Step(r, s, IF F(r).kind = "drop" THEN "preflight" ELSE "checks", entry)
    BY DEF Baselined
  <2> HIDE DEF entry, captures, available, twice
  <2>2. QED
    BY <2>1
<1>2. \A at \in {"skipped", "preflight", "checks"} : at \in Stages
  BY DEF Stages, Ended
<1>3. RowTypes'
  BY <1>1 DEF ScheduleTypes, RowTypes
<1>4. QED
  BY <1>1, <1>2, <1>3, TypesOfRefuse, TypesOfStep

LEMMA CheckedTypes ==
  ASSUME ScheduleIInv, ScheduleTypes, NEW r \in Requests, NEW s \in Symbols, Checked(r, s)
  PROVE  ScheduleTypes'
<1>1. /\ events' = events /\ rows' = rows
      /\ \/ Refuse(r, s, "check")
         \/ \E entry : \E at \in {"skipped", "references"} : Step(r, s, at, entry)
  <2> DEFINE entry == IF F(r).kind = "edit" THEN Updated(rows[job[r].target], Work(r, s), F(r)) ELSE Work(r, s)
             twice == F(r).kind = "create" /\ Duplicate(F(r), entry)
  <2>1. /\ events' = events /\ rows' = rows
        /\ Refuse(r, s, "check") \/ Step(r, s, IF twice THEN "skipped" ELSE "references", entry)
    BY DEF Checked
  <2> HIDE DEF entry, twice
  <2>2. QED
    BY <2>1
<1>2. \A at \in {"skipped", "references"} : at \in Stages
  BY DEF Stages, Ended
<1>3. RowTypes'
  BY <1>1 DEF ScheduleTypes, RowTypes
<1>4. QED
  BY <1>1, <1>2, <1>3, TypesOfRefuse, TypesOfStep

LEMMA ReferencedTypes ==
  ASSUME ScheduleIInv, ScheduleTypes, NEW r \in Requests, NEW s \in Symbols, Referenced(r, s)
  PROVE  ScheduleTypes'
<1>1. /\ events' = events /\ rows' = rows
      /\ \/ Refuse(r, s, "data")
         \/ \E entry : \E at \in {"flushed", "snapshot"} : Step(r, s, at, entry)
  <2> DEFINE uses == PlanUsesReference(F(r).plan)
             fields == ReferenceFields(F(r).plan, s)
             can == Capturable(fields, answers[s])
             one == [Work(r, s) EXCEPT !.shown = {}]
             two == Captured(r, s, CaptureReferences(fields, answers[s]))
             rest == IF F(r).kind = "drop" THEN "flushed" ELSE "snapshot"
  <2>1. /\ events' = events /\ rows' = rows
        /\ CASE ~uses -> Step(r, s, rest, one)
             [] uses /\ can -> Step(r, s, rest, two)
             [] OTHER -> Refuse(r, s, "data")
    BY DEF Referenced
  <2>2. rest \in {"flushed", "snapshot"}
    OBVIOUS
  <2> HIDE DEF uses, fields, can, one, two, rest
  <2>3. QED
    BY <2>1, <2>2
<1>2. \A at \in {"flushed", "snapshot"} : at \in Stages
  BY DEF Stages
<1>3. RowTypes'
  BY <1>1 DEF ScheduleTypes, RowTypes
<1>4. QED
  BY <1>1, <1>2, <1>3, TypesOfRefuse, TypesOfStep

LEMMA PreflightedTypes ==
  ASSUME ScheduleIInv, ScheduleTypes, NEW r \in Requests, NEW s \in Symbols, NEW readable \in BOOLEAN,
         Preflighted(r, s, readable)
  PROVE  ScheduleTypes'
<1>1. TaskFields(TaskOf(r, s)) /\ Fits(TaskOf(r, s)) /\ events \in 0..MaxEvents /\ MaxEvents \in Nat
  BY SchedulesAssumption DEF ScheduleIInv, JobShape, ScheduleTypes, TaskTypes
<1>2. /\ rows' = rows /\ (readable \/ events < MaxEvents) /\ events' = IF readable THEN events ELSE events + 1
      /\ \E task \in {[TaskOf(r, s) EXCEPT !.at = AfterPreflight(F(r))], Failed(r, s, "preflight")} :
           Works(r, s, task, readable)
  BY DEF Preflighted
<1>3. events' \in 0..MaxEvents
  BY <1>1, <1>2
<1>4. RowTypes'
  BY <1>2 DEF ScheduleTypes, RowTypes
<1> DEFINE next == [TaskOf(r, s) EXCEPT !.at = AfterPreflight(F(r))]
<1>5. TaskFields(next) /\ next.at \in {"checks", "baseline"} /\ next.tries = TaskOf(r, s).tries
  BY <1>1 DEF TaskFields, AfterPreflight
<1>6. Works(r, s, next, readable) \/ Works(r, s, Failed(r, s, "preflight"), readable)
  BY <1>2
<1> HIDE DEF next
<1>7. Fits(next)
  BY <1>1, <1>5 DEF Fits, Stages
<1>8. QED
  BY <1>1, <1>3, <1>4, <1>5, <1>6, <1>7, FailedFits, TypesOfTask

\* What a saved order is written to is of its symbol.
LEMMA SavedRowTypes ==
  ASSUME ScheduleIInv, ScheduleTypes, NEW r \in Requests, NEW s \in Symbols, At(r, s, {"snapshot"}), NEW readable,
         Commit(RowId(r, s), Snapshot(F(r), Keyed(F(r), Work(r, s)), answers[s], readable))
  PROVE  RowTypes'
<1> DEFINE entry == Snapshot(F(r), Keyed(F(r), Work(r, s)), answers[s], readable)
           id == RowId(r, s)
<1>1. /\ F(r).kind \notin {"refresh", "drop"} /\ job[r].stage = "running" /\ s \in F(r).symbols
      /\ RowFields(Work(r, s)) /\ Work(r, s).symbol = s /\ Work(r, s).form = job[r].form
  <2>1. s \in F(r).symbols
    BY DEF At
  <2>2. QED
    BY <2>1, AtWork DEF Ended
<1>2. entry.symbol = s /\ entry.form = job[r].form
  BY <1>1, SnapshotFacts
<1>3. DOMAIN rows' = DOMAIN rows \cup {id} /\ \A i \in DOMAIN rows' : rows'[i] = IF i = id THEN entry ELSE rows[i]
  BY DEF Commit
<1> HIDE DEF entry
<1>4. id[2] = s
  <2>1. CASE F(r).kind = "edit"
    <3>1. id = job[r].target /\ id[2] \in F(r).symbols
      BY <1>1, <2>1 DEF RowId, ScheduleTypes, TargetTypes
    <3>2. job[r].form \in DOMAIN Forms
      BY <1>1 DEF ScheduleIInv, JobShape
    <3>3. \E t \in Symbols : F(r).symbols = {t}
      BY <2>1, <3>2, SchedulesAssumption DEF F, FormOf
    <3>4. QED
      BY <1>1, <3>1, <3>3
  <2>2. CASE F(r).kind # "edit"
    BY <2>2 DEF RowId
  <2>3. QED
    BY <2>1, <2>2
<1> HIDE DEF id
<1>5. s \in FormOf(entry.form).symbols
  BY <1>1, <1>2 DEF F
<1>6. QED
  BY <1>2, <1>3, <1>4, <1>5 DEF ScheduleTypes, RowTypes

LEMMA SavedTypes ==
  ASSUME ScheduleIInv, ScheduleTypes, NEW r \in Requests, NEW s \in Symbols, NEW readable \in BOOLEAN, Saved(r, s, readable)
  PROVE  ScheduleTypes'
<1> DEFINE task == [TaskOf(r, s) EXCEPT !.at = "done", !.row = NoRow]
<1>1. /\ At(r, s, {"snapshot"}) /\ Works(r, s, task, readable)
      /\ Commit(RowId(r, s), Snapshot(F(r), Keyed(F(r), Work(r, s)), answers[s], readable))
      /\ readable \/ events < MaxEvents
      /\ events' = IF readable THEN events ELSE events + 1
  BY DEF Saved
<1>2. TaskFields(TaskOf(r, s)) /\ Fits(TaskOf(r, s)) /\ events \in 0..MaxEvents /\ MaxEvents \in Nat
  BY SchedulesAssumption DEF ScheduleIInv, JobShape, ScheduleTypes, TaskTypes
<1>3. TaskFields(task) /\ task.at = "done" /\ task.tries = TaskOf(r, s).tries
  BY <1>2 DEF TaskFields
<1> HIDE DEF task
<1>4. Fits(task) /\ events' \in 0..MaxEvents
  BY <1>1, <1>2, <1>3 DEF Fits, Stages, Ended
<1>5. RowTypes'
  BY <1>1, SavedRowTypes
<1>6. QED
  BY <1>1, <1>3, <1>4, <1>5, TypesOfTask

LEMMA AfterFaultFits ==
  ASSUME NEW r, NEW s, TaskFields(TaskOf(r, s)), Fits(TaskOf(r, s)), NEW transient
  PROVE  TaskFields(AfterFault(r, s, transient)) /\ Fits(AfterFault(r, s, transient))
<1> DEFINE task == TaskOf(r, s)
           again == [task EXCEPT !.at = "baseline", !.tries = task.tries + 1, !.row = DraftOf(F(r), s)]
           stray == [task EXCEPT !.at = "stray", !.error = "fault"]
           after == AfterFault(r, s, transient)
<1>1. \/ task.tries < Attempts /\ after = again
      \/ after = stray
      \/ after = Failed(r, s, "fault")
  BY DEF AfterFault
<1>2. TaskFields(again) /\ again.at = "baseline" /\ again.tries = task.tries + 1
  BY DEF TaskFields
<1>3. TaskFields(stray) /\ stray.at = "stray" /\ stray.tries = task.tries
  BY DEF TaskFields
<1> HIDE DEF again, stray, after
<1>4. Fits(stray) /\ (task.tries < Attempts => Fits(again))
  BY <1>2, <1>3 DEF Fits, Stages, Attempts
<1>5. QED
  BY <1>1, <1>2, <1>3, <1>4, FailedFits DEF after

LEMMA FaultTypes ==
  ASSUME ScheduleIInv, ScheduleTypes, NEW r \in Requests, NEW s \in Symbols, NEW b \in BOOLEAN,
         Fault(r, s, b) \/ CommitFault(r, s, b)
  PROVE  ScheduleTypes'
<1>1. PICK transient \in BOOLEAN :
        /\ Works(r, s, AfterFault(r, s, transient), FALSE) /\ events < MaxEvents /\ events' = events + 1
        /\ \/ rows' = rows
           \/ /\ At(r, s, {"snapshot"})
              /\ Commit(RowId(r, s), Snapshot(F(r), Keyed(F(r), Work(r, s)), answers[s], TRUE))
  BY DEF Fault, CommitFault
<1>2. TaskFields(TaskOf(r, s)) /\ Fits(TaskOf(r, s)) /\ events \in 0..MaxEvents /\ MaxEvents \in Nat
  BY SchedulesAssumption DEF ScheduleIInv, JobShape, ScheduleTypes, TaskTypes
<1>3. RowTypes'
  <2>1. CASE rows' = rows
    BY <2>1 DEF ScheduleTypes, RowTypes
  <2>2. QED
    BY <1>1, <2>1, SavedRowTypes
<1>4. events' \in 0..MaxEvents
  BY <1>1, <1>2
<1>5. QED
  BY <1>1, <1>2, <1>3, <1>4, AfterFaultFits, TypesOfTask

LEMMA RefreshedTypes ==
  ASSUME ScheduleIInv, ScheduleTypes, ReadTypes, NEW r \in Requests, NEW s \in Symbols, Refreshed(r, s)
  PROVE  ScheduleTypes'
<1> DEFINE id == job[r].target
           read == Work(r, s)
<1>1. /\ At(r, s, {"references"}) /\ F(r).kind = "refresh" /\ events' = events
      /\ \/ \E error : Refuse(r, s, error) /\ rows' = rows
         \/ /\ Step(r, s, "done", NoRow)
            /\ \E changed, mine : Commit(id, Copied(Fresh(rows[id], read, changed, r), read, mine))
  BY RefreshedDoes
<1>2. CASE \E error : Refuse(r, s, error) /\ rows' = rows
  BY <1>1, <1>2, TypesOfRefuse
<1>3. ASSUME NEW changed, NEW mine, Step(r, s, "done", NoRow), Commit(id, Copied(Fresh(rows[id], read, changed, r), read, mine))
      PROVE  ScheduleTypes'
  <2> DEFINE entry == Copied(Fresh(rows[id], read, changed, r), read, mine)
  <2>1. Working(r, s) /\ id \in DOMAIN rows
    BY <1>1, AtWork DEF Ended
  <2>2. RowFields(rows[id]) /\ rows[id].symbol = id[2] /\ id[2] \in FormOf(rows[id].form).symbols
    BY <2>1 DEF ScheduleIInv, RowsCommitted, ScheduleTypes, RowTypes
  <2>3. id[2] \in FormOf(read.form).symbols
    BY <1>1, <2>1 DEF ReadTypes, Reading
  <2>4. entry.symbol = rows[id].symbol /\ (entry.form = rows[id].form \/ entry.form = read.form)
    BY <2>2, RefreshedRow
  <2>5. \A i \in DOMAIN rows' : i \in DOMAIN rows /\ rows'[i] = IF i = id THEN entry ELSE rows[i]
    BY <1>3, <2>1 DEF Commit
  <2> HIDE DEF entry, id, read
  <2>6. RowTypes'
    BY <2>2, <2>3, <2>4, <2>5 DEF ScheduleTypes, RowTypes
  <2>7. "done" \in Stages
    BY DEF Stages, Ended
  <2>8. QED
    BY <1>1, <1>3, <2>6, <2>7, TypesOfStep
<1>4. QED
  BY <1>1, <1>2, <1>3

\* A step of a whole request.
LEMMA TypesOfRequest ==
  ASSUME ScheduleIInv, ScheduleTypes, NEW r \in Requests, NEW j, job' = [job EXCEPT ![r] = j], events' = events, RowTypes',
         \A s \in Symbols : Fits(j.task[s]),
         FormOf(j.form).kind \in {"edit", "refresh"} => j.target[2] \in FormOf(j.form).symbols
  PROVE  ScheduleTypes'
<1>1. \A p \in Requests : job'[p] = IF p = r THEN j ELSE job[p]
  BY DEF ScheduleIInv, JobShape
<1>2. TaskTypes'
  <2> SUFFICES ASSUME NEW p \in Requests, NEW t \in Symbols PROVE Fits(TaskOf(p, t)')
    BY DEF TaskTypes, Fits
  <2>1. TaskOf(p, t)' = IF p = r THEN j.task[t] ELSE TaskOf(p, t)
    BY <1>1 DEF TaskOf
  <2>2. QED
    BY <2>1 DEF ScheduleTypes, TaskTypes
<1>3. TargetTypes'
  BY <1>1 DEF ScheduleTypes, TargetTypes, F
<1>4. QED
  BY <1>2, <1>3 DEF ScheduleTypes

LEMMA BeginTypes ==
  ASSUME ScheduleIInv, ScheduleTypes, NEW r \in Requests, NEW name \in DOMAIN Forms, NEW target, Begin(r, Forms[name], target)
  PROVE  ScheduleTypes'
<1> DEFINE f == Forms[name]
           first(s) == [NewTask EXCEPT !.at = FirstStage(f), !.row = IF f.kind = "refresh" THEN rows[target] ELSE DraftOf(f, s)]
           refused == [NewTask EXCEPT !.at = "failed", !.error = "form"]
           tasks == [s \in Symbols |->
             IF s \notin f.symbols THEN NewTask ELSE IF RefusedAtOnce(f, s, target) THEN refused ELSE first(s)]
           j == [stage |-> IF f.kind = "batch" /\ NeedsPreflight(f) THEN "preflight" ELSE "running",
                 form |-> f.name, target |-> target, saw |-> DOMAIN rows, steady |-> TRUE, task |-> tasks]
<1>1. /\ events' = events /\ rows' = rows /\ job' = [job EXCEPT ![r] = j]
      /\ f.kind \in {"edit", "refresh"} => target \in Targets(f)
  BY DEF Begin
<1>2. Fits(NewTask) /\ Fits(refused) /\ \A s \in Symbols : Fits(first(s))
  <2>1. FirstStage(f) \in Stages
    BY DEF FirstStage, Stages
  <2>2. NewTask.at \in Stages /\ NewTask.tries = 1 /\ "failed" \in Stages
    BY DEF NewTask, Stages, Ended
  <2>3. refused.at = "failed" /\ refused.tries = 1
    BY DEF NewTask
  <2>4. \A s \in Symbols : first(s).at = FirstStage(f) /\ first(s).tries = 1
    BY DEF NewTask
  <2> HIDE DEF first, refused
  <2>5. QED
    BY <2>1, <2>2, <2>3, <2>4 DEF Fits, Attempts
<1> HIDE DEF first, refused
<1>3. \A s \in Symbols : Fits(tasks[s])
  BY <1>2
<1> HIDE DEF tasks
<1>4. j.task = tasks /\ j.form = f.name /\ j.target = target
  OBVIOUS
<1> HIDE DEF j
<1>5. FormOf(f.name) = f
  BY SchedulesAssumption DEF FormOf
<1>6. f.kind \in {"edit", "refresh"} => target[2] \in f.symbols
  <2> SUFFICES ASSUME f.kind \in {"edit", "refresh"} PROVE target[2] \in f.symbols
    OBVIOUS
  <2>1. target \in DOMAIN rows /\ rows[target].symbol \in f.symbols
    BY <1>1 DEF Targets
  <2>2. QED
    BY <2>1 DEF ScheduleTypes, RowTypes
<1>7. RowTypes'
  BY <1>1 DEF ScheduleTypes, RowTypes
<1> HIDE DEF f
<1>8. QED
  BY <1>1, <1>3, <1>4, <1>5, <1>6, <1>7, TypesOfRequest

LEMMA BatchPreflightedTypes ==
  ASSUME ScheduleIInv, ScheduleTypes, NEW r \in Requests, BatchPreflighted(r)
  PROVE  ScheduleTypes'
<1> DEFINE gate == PlanStatus(F(r).plan, F(r).side, "")
           verdict == IF gate # "ready" THEN [status |-> gate, named |-> {}]
                      ELSE Preflight(F(r).plan, "", answers, Held, FALSE, F(r).drop)
           blamed == IF verdict.named = {} THEN F(r).symbols ELSE F(r).symbols \cap verdict.named
           tasks == [s \in Symbols |-> IF s \in blamed THEN Failed(r, s, verdict.status) ELSE TaskOf(r, s)]
           running == [job[r] EXCEPT !.stage = "running"]
           done == [job[r] EXCEPT !.stage = "done", !.task = tasks]
<1>1. /\ job[r].stage = "preflight" /\ rows' = rows /\ events' = events
      /\ job' = IF verdict.status = "ready" THEN [job EXCEPT ![r].stage = "running"]
                ELSE [job EXCEPT ![r].stage = "done", ![r].task = tasks]
  BY DEF BatchPreflighted
<1> HIDE DEF verdict, blamed
<1>2. JobFields(job[r]) /\ F(r).kind = "batch" /\ \A s \in Symbols : TaskFields(TaskOf(r, s)) /\ Fits(TaskOf(r, s))
  BY <1>1 DEF ScheduleIInv, JobShape, ScheduleTypes, TaskTypes
<1>3. \A s \in Symbols : Fits(tasks[s])
  BY <1>2, FailedFits
<1> HIDE DEF tasks
<1>4. job' = [job EXCEPT ![r] = running] \/ job' = [job EXCEPT ![r] = done]
  BY <1>1
<1>5. /\ running.task = job[r].task /\ running.form = job[r].form
      /\ done.task = tasks /\ done.form = job[r].form
  BY <1>2 DEF JobFields
<1> HIDE DEF running, done
<1>6. /\ FormOf(running.form).kind = "batch" /\ FormOf(done.form).kind = "batch" /\ RowTypes'
      /\ \A s \in Symbols : Fits(running.task[s]) /\ Fits(done.task[s])
  BY <1>1, <1>2, <1>3, <1>5 DEF F, TaskOf, ScheduleTypes, RowTypes
<1>7. QED
  BY <1>1, <1>4, <1>6, TypesOfRequest

LEMMA DropCommitTypes ==
  ASSUME ScheduleIInv, ScheduleTypes, NEW r \in Requests, DropCommit(r)
  PROVE  ScheduleTypes'
<1> DEFINE flushed == {s \in F(r).symbols : job[r].task[s].at \in {"flushed", "stray"}}
           kept == IF \E s \in flushed : job[r].task[s].at = "flushed" THEN flushed ELSE {}
           made == {<<r, s, 1>> : s \in kept}
           released(s) == [TaskOf(r, s) EXCEPT !.row = NoRow,
                             !.at = CASE @ = "flushed" -> "done" [] @ = "stray" -> "failed" [] OTHER -> @]
           tasks == [s \in Symbols |-> released(s)]
           j == [job[r] EXCEPT !.stage = "done", !.task = tasks]
<1>1. /\ job[r].stage = "running" /\ F(r).kind = "drop" /\ events' = events
      /\ rows' = [id \in DOMAIN rows \cup made |-> IF id \in made THEN Work(r, id[2]) ELSE rows[id]]
      /\ job' = [job EXCEPT ![r] = j]
  BY DEF DropCommit
<1>2. /\ JobFields(job[r]) /\ F(r).symbols \subseteq Symbols
      /\ \A s \in Symbols : TaskFields(TaskOf(r, s)) /\ Fits(TaskOf(r, s))
  BY <1>1, FormFacts DEF ScheduleIInv, JobShape, ScheduleTypes, TaskTypes
<1>3. ASSUME NEW s \in Symbols PROVE Fits(released(s))
  <2>1. /\ released(s).tries = TaskOf(r, s).tries
        /\ released(s).at \in {TaskOf(r, s).at, "done", "failed"}
    BY <1>2 DEF TaskFields
  <2> HIDE DEF released
  <2>2. QED
    BY <1>2, <2>1 DEF Fits, Stages, Ended
<1> HIDE DEF released
<1>4. \A s \in Symbols : Fits(tasks[s])
  BY <1>3
<1> HIDE DEF tasks
<1>5. j.task = tasks /\ j.form = job[r].form
  BY <1>2 DEF JobFields
<1> HIDE DEF j
<1>6. RowTypes'
  <2> SUFFICES ASSUME NEW id \in DOMAIN rows'
               PROVE  rows'[id].symbol = id[2] /\ id[2] \in FormOf(rows'[id].form).symbols
    BY DEF RowTypes
  <2>1. id \in DOMAIN rows \cup made /\ rows'[id] = IF id \in made THEN Work(r, id[2]) ELSE rows[id]
    BY <1>1
  <2>2. CASE id \in made
    <3>1. PICK s \in flushed : id = <<r, s, 1>>
      BY <2>2
    <3>2. s \in Symbols /\ id[2] = s /\ s \in F(r).symbols /\ TaskOf(r, s).at \in {"flushed", "stray"}
      BY <1>2, <3>1 DEF TaskOf
    <3>3. Working(r, s)
      BY <1>1, <3>2 DEF Working, Ended
    <3>4. Work(r, s).symbol = s /\ Work(r, s).form = job[r].form
      BY <1>1, <3>2, <3>3 DEF ScheduleIInv, WorkKept
    <3>5. rows'[id] = Work(r, s)
      BY <2>1, <2>2, <3>2
    <3>6. QED
      BY <3>2, <3>4, <3>5 DEF F
  <2>3. CASE id \notin made
    BY <2>1, <2>3 DEF ScheduleTypes, RowTypes
  <2>4. QED
    BY <2>2, <2>3
<1>7. FormOf(j.form).kind = "drop"
  BY <1>1, <1>5 DEF F
<1>8. QED
  BY <1>1, <1>4, <1>5, <1>6, <1>7, TypesOfRequest

LEMMA MoveTypes ==
  ASSUME ScheduleIInv, ScheduleTypes, NEW m \in Markets, Move(m)
  PROVE  ScheduleTypes'
<1>1. /\ rows' = rows /\ events < MaxEvents /\ events' = events + 1
      /\ job' = [r \in Requests |-> [job[r] EXCEPT !.steady = job[r].steady /\ job[r].stage = "idle"]]
  BY DEF Move
<1>2. ASSUME NEW r \in Requests
      PROVE  /\ job'[r].stage = job[r].stage /\ job'[r].form = job[r].form /\ job'[r].target = job[r].target
             /\ job'[r].task = job[r].task
  <2> DEFINE j == [job[r] EXCEPT !.steady = job[r].steady /\ job[r].stage = "idle"]
  <2>1. job'[r] = j
    BY <1>1
  <2>2. j.stage = job[r].stage /\ j.form = job[r].form /\ j.target = job[r].target /\ j.task = job[r].task
    BY DEF ScheduleIInv, JobShape, JobFields
  <2> HIDE DEF j
  <2>3. QED
    BY <2>1, <2>2
<1>3. TaskTypes' /\ TargetTypes'
  BY <1>2 DEF ScheduleTypes, TaskTypes, TargetTypes, TaskOf, F, Fits
<1>4. RowTypes' /\ events' \in 0..MaxEvents
  BY <1>1, SchedulesAssumption DEF ScheduleTypes, RowTypes
<1>5. QED
  BY <1>3, <1>4 DEF ScheduleTypes

LEMMA ScheduleTypesInit == ScheduleInit => ScheduleTypes /\ ReadTypes
<1> SUFFICES ASSUME ScheduleInit PROVE ScheduleTypes /\ ReadTypes
  OBVIOUS
<1>1. events = 0 /\ DOMAIN rows = {} /\ \A r \in Requests : job[r] = NewJob
  BY DEF ScheduleInit
<1>2. NewJob.stage = "idle" /\ \A s \in Symbols : NewJob.task[s].at = "queued" /\ NewJob.task[s].tries = 1
  BY DEF NewJob, NewTask
<1> HIDE DEF NewJob
<1>3. TaskTypes
  BY <1>1, <1>2 DEF TaskTypes, TaskOf, Fits, Stages, Attempts
<1>4. QED
  BY <1>1, <1>2, <1>3, SchedulesAssumption DEF ScheduleTypes, RowTypes, TargetTypes, ReadTypes, Reading, Working

LEMMA ReadTypesStep ==
  ASSUME ScheduleIInv, ScheduleTypes, ReadTypes, [ScheduleNext]_scheduleVars
  PROVE  ReadTypes'
<1>1. CASE UNCHANGED scheduleVars
  BY <1>1 DEF scheduleVars, ReadTypes, Reading, Working, Work, TaskOf, F
<1>2. CASE ScheduleNext
  <2> SUFFICES ASSUME NEW r \in Requests, NEW s \in Symbols, Reading(r, s)'
               PROVE  /\ Work(r, s)'.symbol = job'[r].target[2]
                      /\ job'[r].target[2] \in FormOf(Work(r, s)'.form).symbols
    BY DEF ReadTypes, FormOf
  <2>1. CASE Reading(r, s) /\ Work(r, s)' = Work(r, s) /\ job'[r].target = job[r].target
    BY <2>1 DEF ReadTypes
  <2>2. CASE job'[r].target \in DOMAIN rows /\ Work(r, s)' = rows[job'[r].target]
    BY <2>2 DEF ScheduleTypes, RowTypes
  <2>3. QED
    BY <1>2, <2>1, <2>2, ReadingStep
<1>3. QED
  BY <1>1, <1>2

LEMMA ScheduleTypesStep == ScheduleIInv /\ ScheduleTypes /\ ReadTypes /\ [ScheduleNext]_scheduleVars => ScheduleTypes'
<1> SUFFICES ASSUME ScheduleIInv, ScheduleTypes, ReadTypes, [ScheduleNext]_scheduleVars PROVE ScheduleTypes'
  OBVIOUS
<1>1. ASSUME NEW r \in Requests, NEW name \in DOMAIN Forms, NEW target \in DOMAIN rows \cup {<<>>},
             Begin(r, Forms[name], target)
      PROVE  ScheduleTypes'
  BY <1>1, BeginTypes
<1>2. ASSUME NEW r \in Requests, BatchPreflighted(r) \/ DropCommit(r) PROVE ScheduleTypes'
  BY <1>2, BatchPreflightedTypes, DropCommitTypes
<1>3. ASSUME NEW r \in Requests, NEW s \in Symbols,
             \/ NextSymbol(r, s) \/ Baselined(r, s) \/ Checked(r, s) \/ Referenced(r, s) \/ Refreshed(r, s)
      PROVE  ScheduleTypes'
  BY <1>3, NextSymbolTypes, BaselinedTypes, CheckedTypes, ReferencedTypes, RefreshedTypes
<1>4. ASSUME NEW r \in Requests, NEW s \in Symbols, NEW b \in BOOLEAN,
             Preflighted(r, s, b) \/ Saved(r, s, b) \/ Fault(r, s, b) \/ CommitFault(r, s, b)
      PROVE  ScheduleTypes'
  BY <1>4, PreflightedTypes, SavedTypes, FaultTypes
<1>5. ASSUME NEW m \in Markets, Move(m) PROVE ScheduleTypes'
  BY <1>5, MoveTypes
<1>6. CASE UNCHANGED scheduleVars
  BY <1>6 DEF scheduleVars, ScheduleTypes, TaskTypes, RowTypes, TargetTypes, TaskOf, F, Fits
<1>7. QED
  BY <1>1, <1>2, <1>3, <1>4, <1>5, <1>6 DEF ScheduleNext

\* Tasks are at stages that exist and are tried no more often than a batch tries them; an
\* order is of the symbol of its row and of its form, through edits and refreshes as well.
THEOREM ScheduleTypeCorrect == ScheduleSpec => []ScheduleTypeOK
<1>1. ScheduleIInv /\ ScheduleTypes => ScheduleTypeOK
  BY DEF ScheduleIInv, JobShape, ScheduleTypes, TaskTypes, RowTypes, Fits, TaskOf, ScheduleTypeOK
<1>2. QED
  BY <1>1, ScheduleTypesInit, ScheduleTypesStep, ReadTypesStep, ScheduleInvariant, PTL DEF ScheduleSpec

-----------------------------------------------------------------------------
(* The captured references.                                                *)

LEMMA PairsOfCapture ==
  ASSUME NEW fields, NEW q, \A x \in fields : x = <<x[1], x[2]>>
  PROVE  Pairs(CaptureReferences(fields, q)) = fields
<1>1. CaptureReferences(fields, q) = {<<x[1], x[2], FieldValue(x[2], q)>> : x \in fields}
  BY DEF CaptureReferences
<1>2. \A x \in fields : <<x[1], x[2], FieldValue(x[2], q)>>[1] = x[1] /\ <<x[1], x[2], FieldValue(x[2], q)>>[2] = x[2]
  OBVIOUS
<1>3. ASSUME NEW y \in Pairs(CaptureReferences(fields, q)) PROVE y \in fields
  <2>1. PICK x \in CaptureReferences(fields, q) : y = <<x[1], x[2]>>
    BY <1>3 DEF Pairs
  <2>2. PICK z \in fields : x = <<z[1], z[2], FieldValue(z[2], q)>>
    BY <1>1, <2>1
  <2>3. y = <<z[1], z[2]>>
    BY <1>2, <2>1, <2>2
  <2>4. QED
    BY <2>3
<1>4. ASSUME NEW z \in fields PROVE z \in Pairs(CaptureReferences(fields, q))
  <2> DEFINE x == <<z[1], z[2], FieldValue(z[2], q)>>
  <2>1. x \in CaptureReferences(fields, q)
    BY <1>1
  <2>2. z = <<x[1], x[2]>>
    OBVIOUS
  <2> HIDE DEF x
  <2>3. QED
    BY <2>1, <2>2 DEF Pairs
<1>5. QED
  BY <1>3, <1>4

LEMMA FieldsArePairs ==
  ASSUME NEW p, NEW s
  PROVE  \A x \in ReferenceFields(p, s) : x = <<x[1], x[2]>>
BY DEF ReferenceFields

\* What a capture, a refresh and the steps of the others owe an order.
Covered(e) ==
  PlanUsesReference(FormOf(e.form).plan)
    => /\ Pairs(e.shown) = ReferenceFields(FormOf(e.form).plan, e.symbol)
       /\ Pairs(e.refs) = Pairs(e.shown)
       /\ e.refs = e.shown \/ e.overtaken
RowsCovered == \A id \in DOMAIN rows : Covered(rows[id]) \/ Reported(id)

\* Whoever captured or refreshed an order will not do so again.
Spent(p) ==
  /\ p \in Requests /\ job[p].stage # "idle"
  /\ F(p).kind \in {"edit", "refresh"} => \A t \in Symbols : ~Working(p, t)
RowsSpent == \A id \in DOMAIN rows : \A p \in rows[id].captured \cup rows[id].refreshed : Spent(p)

\* The row of a new order; that of an edit that holds the lock; and what a refresh read, of
\* which it can tell by the ids whether it was captured anew, and we whether it was refreshed.
OwnCover(r, at, w) ==
  w.captured \subseteq {r} /\ w.refreshed = {} /\ (at \in {"snapshot", "flushed"} => Covered(w))
EditCover(r, at, w, now) ==
  /\ w.refreshed = now.refreshed
  /\ at = "references" => w.captured = now.captured /\ w.refs = now.refs
  /\ at = "snapshot" =>
       /\ Covered(w)
       /\ \/ w.captured = now.captured \cup {r}
          \/ w.captured = now.captured /\ w.refs = now.refs /\ ~PlanUsesReference(FormOf(w.form).plan)
ReadCover(w, now) ==
  /\ w.captured \subseteq now.captured /\ w.refreshed \subseteq now.refreshed
  /\ w.captured = now.captured => Pairs(w.refs) = Pairs(now.refs)
  /\ w.captured = now.captured /\ w.refreshed = now.refreshed =>
       w.refs = now.refs /\ (w.shown = now.shown \/ ~PlanUsesReference(FormOf(now.form).plan))
TaskCover(r, s) ==
  Working(r, s) =>
    /\ F(r).kind \notin {"edit", "refresh"} => OwnCover(r, TaskOf(r, s).at, Work(r, s))
    /\ LocksRow(r, s) => EditCover(r, TaskOf(r, s).at, Work(r, s), rows[job[r].target])
    /\ F(r).kind = "refresh" => /\ ReadCover(Work(r, s), rows[job[r].target])
                                /\ Covered(Work(r, s)) \/ Reported(job[r].target)
TasksCovered == \A r \in Requests, s \in Symbols : TaskCover(r, s)
OneLock == \A r \in Requests, s \in Symbols : LocksRow(r, s) => ~Locked(r, s)

CoverIInv == RowsCovered /\ RowsSpent /\ TasksCovered /\ OneLock

\* A write to an order: it captures, refreshes, or leaves the references as they are.
Grown(r, now, new) ==
  /\ new.captured \in {now.captured, now.captured \cup {r}} /\ new.refreshed \in {now.refreshed, now.refreshed \cup {r}}
  /\ new.captured = now.captured => Pairs(new.refs) = Pairs(now.refs)
  /\ new.captured = now.captured /\ new.refreshed = now.refreshed =>
       new.refs = now.refs /\ ~PlanUsesReference(FormOf(new.form).plan)

LEMMA ReadGrown ==
  ASSUME NEW r, NEW w, NEW now, NEW new, ReadCover(w, now), Grown(r, now, new), r \notin now.captured \cup now.refreshed
  PROVE  ReadCover(w, new)
<1>1. w.captured \subseteq new.captured /\ w.refreshed \subseteq new.refreshed
  BY DEF ReadCover, Grown
<1>2. w.captured = new.captured => new.captured = now.captured /\ w.captured = now.captured
  BY DEF ReadCover, Grown
<1>3. w.refreshed = new.refreshed => new.refreshed = now.refreshed /\ w.refreshed = now.refreshed
  BY DEF ReadCover, Grown
<1>4. QED
  BY <1>1, <1>2, <1>3 DEF ReadCover, Grown

\* An edit and a refresh are of one symbol.
LEMMA OneSymbol ==
  ASSUME ScheduleIInv, NEW r \in Requests, job[r].stage # "idle", F(r).kind \in {"edit", "refresh"},
         NEW s \in F(r).symbols, NEW t \in F(r).symbols
  PROVE  s = t
<1>1. job[r].form \in DOMAIN Forms
  BY DEF ScheduleIInv, JobShape
<1>2. \E u \in Symbols : F(r).symbols = {u}
  BY <1>1, SchedulesAssumption DEF F, FormOf
<1>3. QED
  BY <1>2

\* What a step leaves of the others, and what it owes them.
LEMMA CoverFrame ==
  ASSUME ScheduleIInv, CoverIInv, NEW r \in Requests,
         \A p \in Requests : p # r => job'[p] = job[p],
         job[r].stage # "idle" => /\ F(r)' = F(r) /\ job'[r].stage # "idle" /\ job'[r].target = job[r].target
                                  /\ \A t \in Symbols : Working(r, t)' => Working(r, t),
         \A id \in DOMAIN rows : id[1] = r /\ Reported(id) => Reported(id)',
         \A t \in Symbols : TaskCover(r, t)' /\ (LocksRow(r, t)' => ~Locked(r, t)'),
         DOMAIN rows \subseteq DOMAIN rows',
         \A id \in DOMAIN rows :
           \/ rows'[id] = rows[id]
           \/ /\ id = job[r].target /\ job[r].stage # "idle" /\ ~Spent(r) /\ Spent(r)' /\ Grown(r, rows[id], rows'[id])
              /\ \A t \in Symbols : ~Locked(r, t)
              /\ Covered(rows'[id]) \/ Reported(id),
         \A id \in DOMAIN rows' \ DOMAIN rows :
           /\ Covered(rows'[id]) \/ Reported(id)'
           /\ rows'[id].captured \cup rows'[id].refreshed \subseteq {r} /\ Spent(r)'
  PROVE  CoverIInv'
<1>1. \A id \in DOMAIN rows : Reported(id) => Reported(id)'
  <2>1. \A id \in DOMAIN rows : id[1] \in Requests
    BY RequestOfRow
  <2>2. \A id \in DOMAIN rows : id[1] # r => job'[id[1]] = job[id[1]]
    BY <2>1
  <2>3. QED
    BY <2>2 DEF Reported, F
<1>2. \A p : Spent(p) => Spent(p)'
  <2>1. ASSUME NEW p, Spent(p), p # r PROVE Spent(p)'
    <3>1. job'[p] = job[p]
      BY <2>1 DEF Spent
    <3>2. QED
      BY <2>1, <3>1 DEF Spent, F, Working, TaskOf
  <2>2. Spent(r) => Spent(r)'
    BY DEF Spent
  <2>3. QED
    BY <2>1, <2>2
<1>3. RowsCovered'
  <2> SUFFICES ASSUME NEW id \in DOMAIN rows' PROVE Covered(rows'[id]) \/ Reported(id)'
    BY DEF RowsCovered, Covered, FormOf
  <2>1. id \in DOMAIN rows => Covered(rows[id]) \/ Reported(id)
    BY DEF CoverIInv, RowsCovered
  <2>2. QED
    BY <1>1, <2>1
<1>4. RowsSpent'
  <2> SUFFICES ASSUME NEW id \in DOMAIN rows', NEW p \in rows'[id].captured \cup rows'[id].refreshed PROVE Spent(p)'
    BY DEF RowsSpent
  <2>1. CASE id \notin DOMAIN rows
    BY <2>1
  <2>2. CASE id \in DOMAIN rows /\ rows'[id] = rows[id]
    BY <1>2, <2>2 DEF CoverIInv, RowsSpent
  <2>3. CASE id \in DOMAIN rows /\ rows'[id] # rows[id]
    <3>1. Grown(r, rows[id], rows'[id]) /\ Spent(r)'
      BY <2>3
    <3>2. p \in rows[id].captured \cup rows[id].refreshed \cup {r}
      BY <3>1 DEF Grown
    <3>3. QED
      BY <1>2, <2>3, <3>1, <3>2 DEF CoverIInv, RowsSpent
  <2>4. QED
    BY <2>1, <2>2, <2>3
<1>5. ASSUME NEW p \in Requests, p # r, NEW t \in Symbols
      PROVE  /\ Working(p, t)' = Working(p, t) /\ F(p)' = F(p) /\ TaskOf(p, t)' = TaskOf(p, t) /\ Work(p, t)' = Work(p, t)
             /\ LocksRow(p, t)' = LocksRow(p, t) /\ job'[p].target = job[p].target
  <2>1. job'[p] = job[p]
    BY <1>5
  <2>2. F(p)' = F(p) /\ TaskOf(p, t)' = TaskOf(p, t) /\ Work(p, t)' = Work(p, t)
    BY <2>1 DEF F, TaskOf, Work
  <2>3. QED
    BY <2>1, <2>2 DEF Working, LocksRow, At
<1>6. TasksCovered'
  <2> SUFFICES ASSUME NEW p \in Requests, NEW t \in Symbols PROVE TaskCover(p, t)'
    BY DEF TasksCovered
  <2>1. CASE p = r
    BY <2>1
  <2>2. CASE p # r
    <3> DEFINE w == Work(p, t)
    <3> SUFFICES ASSUME NEW id, id = job[p].target, Working(p, t)
                 PROVE  /\ F(p).kind \notin {"edit", "refresh"} => OwnCover(p, TaskOf(p, t).at, w)
                        /\ LocksRow(p, t) => EditCover(p, TaskOf(p, t).at, w, rows'[id])
                        /\ F(p).kind = "refresh" => ReadCover(w, rows'[id]) /\ (Covered(w) \/ Reported(id)')
      BY <1>5, <2>2 DEF TaskCover, OwnCover, EditCover, ReadCover, Covered, FormOf
    <3>1. TaskCover(p, t)
      BY DEF CoverIInv, TasksCovered
    <3>2. F(p).kind \in {"edit", "refresh"} => id \in DOMAIN rows
      BY DEF ScheduleIInv, TargetKept, Working
    <3>3. ASSUME LocksRow(p, t) PROVE rows'[id] = rows[id]
      <4>1. id \in DOMAIN rows
        BY <3>2, <3>3 DEF LocksRow
      <4>2. id = job[r].target => Locked(r, t)
        BY <2>2, <3>3 DEF Locked
      <4>3. QED
        BY <4>1, <4>2
    <3>4. ASSUME F(p).kind = "refresh" PROVE ReadCover(w, rows'[id]) /\ (Covered(w) \/ Reported(id)')
      <4>1. id \in DOMAIN rows /\ ReadCover(w, rows[id]) /\ (Covered(w) \/ Reported(id))
        BY <3>1, <3>2, <3>4 DEF TaskCover
      <4>2. CASE rows'[id] = rows[id]
        BY <1>1, <4>1, <4>2
      <4>3. CASE rows'[id] # rows[id]
        <5>1. Grown(r, rows[id], rows'[id]) /\ ~Spent(r)
          BY <4>1, <4>3
        <5>2. r \notin rows[id].captured \cup rows[id].refreshed
          BY <4>1, <5>1 DEF CoverIInv, RowsSpent
        <5> HIDE DEF w
        <5>3. QED
          BY <1>1, <4>1, <5>1, <5>2, ReadGrown
      <4>4. QED
        BY <4>2, <4>3
    <3>5. QED
      BY <3>1, <3>3, <3>4 DEF TaskCover
  <2>3. QED
    BY <2>1, <2>2
<1>7. OneLock'
  <2> SUFFICES ASSUME NEW p \in Requests, NEW t \in Symbols, LocksRow(p, t)', Locked(p, t)' PROVE FALSE
    BY DEF OneLock
  <2>1. PICK q \in Requests \ {p} : job'[q].target = job'[p].target /\ LocksRow(q, t)'
    BY DEF Locked
  <2>2. CASE p = r
    BY <2>2
  <2>3. CASE q = r
    <3>1. Locked(r, t)'
      BY <2>1, <2>3 DEF Locked
    <3>2. QED
      BY <2>1, <2>3, <3>1
  <2>4. CASE p # r /\ q # r
    <3>1. LocksRow(p, t) /\ LocksRow(q, t) /\ job[q].target = job[p].target
      BY <1>5, <2>1, <2>4
    <3>2. Locked(p, t)
      BY <2>1, <3>1 DEF Locked
    <3>3. QED
      BY <3>1, <3>2 DEF CoverIInv, OneLock
  <2>5. QED
    BY <2>2, <2>3, <2>4
<1>8. QED
  BY <1>3, <1>4, <1>6, <1>7 DEF CoverIInv

\* A step of one task.
LEMMA CoverTask ==
  ASSUME ScheduleIInv, ScheduleTypes, CoverIInv, NEW r \in Requests, NEW s \in Symbols, Working(r, s),
         NEW task, TaskFields(task), task.tries \in Nat, NEW steady \in BOOLEAN, Works(r, s, task, steady),
         F(r).kind = "refresh" => task.at \in Ended,
         F(r).kind \notin {"edit", "refresh"} /\ task.at \notin Ended => OwnCover(r, task.at, task.row),
         F(r).kind = "edit" /\ task.at \in {"references", "snapshot"} =>
           EditCover(r, task.at, task.row, rows[job[r].target]) /\ ~Locked(r, s),
         DOMAIN rows \subseteq DOMAIN rows',
         \A id \in DOMAIN rows :
           \/ rows'[id] = rows[id]
           \/ /\ id = job[r].target /\ F(r).kind \in {"edit", "refresh"} /\ task.at \in Ended
              /\ Grown(r, rows[id], rows'[id]) /\ ~Locked(r, s)
              /\ Covered(rows'[id]) \/ Reported(id),
         \A id \in DOMAIN rows' \ DOMAIN rows :
           /\ Covered(rows'[id]) /\ F(r).kind \notin {"edit", "refresh"}
           /\ rows'[id].captured \cup rows'[id].refreshed \subseteq {r}
  PROVE  CoverIInv'
<1>1. OnlyTask(r, s, task, steady)
  BY WorksOnly DEF ScheduleIInv
<1>2. /\ job[r].stage # "idle" /\ job'[r].stage = job[r].stage /\ job'[r].target = job[r].target /\ F(r)' = F(r)
      /\ TaskOf(r, s)' = task /\ Work(r, s)' = task.row /\ s \in F(r).symbols /\ TaskOf(r, s).at \notin Ended
      /\ \A t \in Symbols : t # s => TaskOf(r, t)' = TaskOf(r, t) /\ Work(r, t)' = Work(r, t)
  BY <1>1 DEF OnlyTask, F, Work, TaskOf, Working
<1>3. \A p \in Requests : p # r => job'[p] = job[p]
  BY DEF Works, ScheduleIInv, JobShape
<1>4. \A t \in Symbols : Working(r, t)' => Working(r, t)
  BY <1>2 DEF Working
<1>5. \A t \in Symbols : F(r).kind \in {"edit", "refresh"} /\ t # s => t \notin F(r).symbols
  BY <1>2, OneSymbol
<1>6. \A id \in DOMAIN rows : id[1] = r /\ Reported(id) => Reported(id)'
  <2> SUFFICES ASSUME NEW id \in DOMAIN rows, id[1] = r, Reported(id) PROVE Reported(id)'
    OBVIOUS
  <2>1. TaskOf(r, id[2]).at = "failed" /\ F(r).kind = "drop" /\ id[2] \in Symbols
    BY DEF Reported, TaskOf, ScheduleIInv, RowsCommitted, Identified
  <2>2. id[2] # s
    BY <1>2, <2>1 DEF Ended
  <2>3. TaskOf(r, id[2])'.at = "failed" /\ F(r)'.kind = "drop"
    BY <1>2, <2>1, <2>2
  <2>4. QED
    BY <2>3 DEF Reported, TaskOf
<1>7. (F(r).kind \in {"edit", "refresh"} => ~Spent(r)) /\ (task.at \in Ended \/ F(r).kind \notin {"edit", "refresh"} => Spent(r)')
  <2>1. F(r).kind \in {"edit", "refresh"} /\ task.at \in Ended => \A t \in Symbols : ~Working(r, t)'
    BY <1>2, <1>5 DEF Working
  <2>2. F(r).kind \in {"edit", "refresh"} => ~Spent(r)
    BY DEF Spent
  <2>3. QED
    BY <1>2, <2>1, <2>2 DEF Spent
<1>8. ASSUME NEW t \in Symbols, LocksRow(r, t)'
      PROVE  /\ t = s /\ F(r).kind = "edit" /\ task.at \in {"references", "snapshot"} /\ ~Locked(r, t)'
             /\ rows'[job[r].target] = rows[job[r].target]
  <2>1. F(r).kind = "edit" /\ t \in F(r).symbols /\ TaskOf(r, t)'.at \in {"references", "snapshot"}
    BY <1>2, <1>8 DEF LocksRow, At, TaskOf
  <2>2. t = s
    BY <1>5, <2>1
  <2>3. ~Locked(r, s)'
    BY <1>2, <1>3, <2>1, <2>2 DEF Locked, LocksRow, At, F
  <2>4. job[r].target \in DOMAIN rows
    BY <1>2, <2>1 DEF ScheduleIInv, TargetKept
  <2>5. QED
    BY <1>2, <2>1, <2>2, <2>3, <2>4 DEF Ended
<1>9. ASSUME NEW t \in Symbols PROVE TaskCover(r, t)'
  <2> SUFFICES ASSUME Working(r, t)'
               PROVE  /\ F(r).kind \notin {"edit", "refresh"} => OwnCover(r, TaskOf(r, t)'.at, Work(r, t)')
                      /\ LocksRow(r, t)' => EditCover(r, TaskOf(r, t)'.at, Work(r, t)', rows'[job[r].target])
                      /\ F(r).kind # "refresh"
    BY <1>2 DEF TaskCover, OwnCover, EditCover, Covered, FormOf
  <2>1. t \in F(r).symbols /\ TaskOf(r, t)'.at \notin Ended /\ Working(r, t)
    BY <1>2, <1>4 DEF Working
  <2>2. F(r).kind # "refresh"
    BY <1>2, <1>5, <2>1
  <2>3. ASSUME F(r).kind \notin {"edit", "refresh"} PROVE OwnCover(r, TaskOf(r, t)'.at, Work(r, t)')
    <3>1. TaskCover(r, t)
      BY DEF CoverIInv, TasksCovered
    <3>2. CASE t = s
      BY <1>2, <2>1, <2>3, <3>2
    <3>3. CASE t # s
      BY <1>2, <2>1, <2>3, <3>1, <3>3 DEF TaskCover
    <3>4. QED
      BY <3>2, <3>3
  <2>4. ASSUME LocksRow(r, t)' PROVE EditCover(r, TaskOf(r, t)'.at, Work(r, t)', rows'[job[r].target])
    BY <1>2, <1>8, <2>4
  <2>5. QED
    BY <2>2, <2>3, <2>4
<1>10. \A id \in DOMAIN rows :
         \/ rows'[id] = rows[id]
         \/ /\ id = job[r].target /\ job[r].stage # "idle" /\ ~Spent(r) /\ Spent(r)' /\ Grown(r, rows[id], rows'[id])
            /\ \A t \in Symbols : ~Locked(r, t)
            /\ Covered(rows'[id]) \/ Reported(id)
  <2> SUFFICES ASSUME NEW id \in DOMAIN rows, rows'[id] # rows[id], NEW t \in Symbols
               PROVE  /\ id = job[r].target /\ job[r].stage # "idle" /\ ~Spent(r) /\ Spent(r)'
                      /\ Grown(r, rows[id], rows'[id]) /\ ~Locked(r, t) /\ (Covered(rows'[id]) \/ Reported(id))
    BY <1>2, <1>7
  <2>1. /\ id = job[r].target /\ F(r).kind \in {"edit", "refresh"} /\ task.at \in Ended /\ Grown(r, rows[id], rows'[id])
        /\ ~Locked(r, s) /\ (Covered(rows'[id]) \/ Reported(id))
    OBVIOUS
  <2>2. ~Locked(r, t)
    <3> SUFFICES ASSUME Locked(r, t), t # s PROVE FALSE
      BY <2>1
    <3>1. PICK p \in Requests : job[p].target = job[r].target /\ LocksRow(p, t)
      BY DEF Locked
    <3>2. job[p].stage # "idle" /\ F(p).kind = "edit" /\ t \in F(p).symbols
      BY <3>1 DEF LocksRow, At
    <3>3. job[p].target[2] \in F(p).symbols /\ job[r].target[2] \in F(r).symbols
      BY <1>2, <2>1, <3>2 DEF ScheduleTypes, TargetTypes
    <3>4. job[p].target[2] = t /\ job[r].target[2] = s
      BY <1>2, <2>1, <3>2, <3>3, OneSymbol
    <3>5. QED
      BY <3>1, <3>4
  <2>3. QED
    BY <1>2, <1>7, <2>1, <2>2
<1>11. QED
  BY <1>2, <1>3, <1>4, <1>6, <1>7, <1>8, <1>9, <1>10, CoverFrame

LEMMA CoverRefuse ==
  ASSUME ScheduleIInv, ScheduleTypes, CoverIInv, NEW r \in Requests, NEW s \in Symbols, Working(r, s),
         NEW error, Refuse(r, s, error), rows' = rows
  PROVE  CoverIInv'
<1> DEFINE task == Failed(r, s, error)
<1>1. TaskFields(TaskOf(r, s)) /\ TaskOf(r, s).tries \in Nat
  BY DEF ScheduleIInv, JobShape
<1>2. TaskFields(task) /\ task.tries \in Nat /\ task.at = "failed"
  BY <1>1, FailFits DEF TaskFits
<1>3. Works(r, s, task, TRUE)
  BY DEF Refuse
<1> HIDE DEF task
<1>4. task.at \in Ended /\ task.at \notin {"references", "snapshot"}
  BY <1>2 DEF Ended
<1>5. QED
  BY <1>2, <1>3, <1>4, CoverTask

\* A step to another stage that leaves the committed orders.
LEMMA CoverAdvance ==
  ASSUME ScheduleIInv, ScheduleTypes, CoverIInv, NEW r \in Requests, NEW s \in Symbols, Working(r, s),
         F(r).kind # "refresh", NEW at, NEW entry, Step(r, s, at, entry), rows' = rows,
         F(r).kind # "edit" /\ at \notin Ended => OwnCover(r, at, entry),
         F(r).kind = "edit" /\ at \in {"references", "snapshot"} =>
           EditCover(r, at, entry, rows[job[r].target]) /\ ~Locked(r, s)
  PROVE  CoverIInv'
<1> DEFINE task == [TaskOf(r, s) EXCEPT !.at = at, !.row = entry]
<1>1. TaskFields(TaskOf(r, s)) /\ TaskOf(r, s).tries \in Nat
  BY DEF ScheduleIInv, JobShape
<1>2. TaskFields(task) /\ task.tries \in Nat /\ task.at = at /\ task.row = entry
  BY <1>1 DEF TaskFields
<1>3. Works(r, s, task, TRUE)
  BY DEF Step
<1> HIDE DEF task
<1>4. QED
  BY <1>2, <1>3, CoverTask

\* What a task of a new order, and an edit beyond its lock, has of its row.
LEMMA OwnAtWork ==
  ASSUME CoverIInv, NEW r \in Requests, NEW s \in Symbols, Working(r, s)
  PROVE  /\ F(r).kind \notin {"edit", "refresh"} => OwnCover(r, TaskOf(r, s).at, Work(r, s))
         /\ F(r).kind = "edit" /\ At(r, s, {"references", "snapshot"}) =>
              EditCover(r, TaskOf(r, s).at, Work(r, s), rows[job[r].target]) /\ ~Locked(r, s)
BY DEF CoverIInv, TasksCovered, TaskCover, OneLock, LocksRow

LEMMA NextSymbolCovers ==
  ASSUME ScheduleIInv, ScheduleTypes, CoverIInv, NEW r \in Requests, NEW s \in Symbols, NextSymbol(r, s)
  PROVE  CoverIInv'
<1>1. At(r, s, {"queued"}) /\ F(r).kind = "drop" /\ Step(r, s, "baseline", Work(r, s)) /\ rows' = rows
  BY DEF NextSymbol
<1>2. Working(r, s)
  BY <1>1, AtWork DEF Ended
<1>3. OwnCover(r, "baseline", Work(r, s))
  BY <1>1, <1>2, OwnAtWork DEF OwnCover
<1>4. QED
  BY <1>1, <1>2, <1>3, CoverAdvance

LEMMA BaselinedCovers ==
  ASSUME ScheduleIInv, ScheduleTypes, CoverIInv, NEW r \in Requests, NEW s \in Symbols, Baselined(r, s)
  PROVE  CoverIInv'
<1> DEFINE f == F(r)
           entry == Based(f, Work(r, s), answers[s])
           available == BaselineAvailable(answers[s], f.drop)
           twice == f.kind = "add" /\ Duplicate(f, entry)
<1>1. At(r, s, {"baseline"}) /\ rows' = rows
  BY DEF Baselined
<1>2. Working(r, s) /\ f.kind # "refresh" /\ RowFields(Work(r, s))
  BY <1>1, AtWork DEF Ended
<1>3. entry.captured = Work(r, s).captured /\ entry.refreshed = Work(r, s).refreshed
  BY <1>2 DEF Based, WithBaseline, RowFields
<1>4. \/ Refuse(r, s, "data")
      \/ \E at \in {"skipped", "preflight", "checks"} : Step(r, s, at, entry)
  <2>1. /\ rows' = rows
        /\ CASE Captures(f) /\ ~available -> Refuse(r, s, "data")
             [] Captures(f) => available ->
                  IF twice THEN Step(r, s, "skipped", entry)
                  ELSE Step(r, s, IF f.kind = "drop" THEN "preflight" ELSE "checks", entry)
    BY DEF Baselined
  <2> HIDE DEF entry, available, twice
  <2>2. QED
    BY <2>1
<1> HIDE DEF entry, available, twice
<1>5. f.kind # "edit" => \A at \in {"skipped", "preflight", "checks"} : OwnCover(r, at, entry)
  BY <1>2, <1>3, OwnAtWork DEF OwnCover
<1>6. QED
  BY <1>1, <1>2, <1>4, <1>5, CoverRefuse, CoverAdvance

LEMMA CheckedCovers ==
  ASSUME ScheduleIInv, ScheduleTypes, CoverIInv, NEW r \in Requests, NEW s \in Symbols, Checked(r, s)
  PROVE  CoverIInv'
<1> DEFINE f == F(r)
           now == rows[job[r].target]
           entry == IF f.kind = "edit" THEN Updated(now, Work(r, s), f) ELSE Work(r, s)
           twice == f.kind = "create" /\ Duplicate(f, entry)
<1>1. At(r, s, {"checks"}) /\ rows' = rows
  BY DEF Checked
<1>2. Working(r, s) /\ f.kind # "refresh" /\ RowFields(Work(r, s))
  BY <1>1, AtWork DEF Ended
<1>3. f.kind = "edit" => EditCover(r, "references", entry, now)
  <2>1. f.kind = "edit" => entry.refreshed = now.refreshed /\ entry.captured = now.captured /\ entry.refs = now.refs
    BY <1>2 DEF Updated, RowFields
  <2> HIDE DEF entry, now
  <2>2. QED
    BY <2>1 DEF EditCover
<1>4. f.kind # "edit" => OwnCover(r, "references", entry)
  BY <1>2, OwnAtWork DEF OwnCover
<1>5. \/ Refuse(r, s, "check")
      \/ Step(r, s, "skipped", entry) /\ f.kind = "create"
      \/ Step(r, s, "references", entry) /\ (f.kind = "edit" => ~Locked(r, s))
  <2>1. \/ Refuse(r, s, "check")
        \/ /\ f.kind = "edit" => ~Locked(r, s)
           /\ Step(r, s, IF twice THEN "skipped" ELSE "references", entry)
    BY DEF Checked
  <2>2. twice => f.kind = "create"
    OBVIOUS
  <2> HIDE DEF entry, twice
  <2>3. QED
    BY <2>1, <2>2
<1> HIDE DEF entry, twice
<1>6. "skipped" \in Ended /\ "references" \notin Ended
  BY DEF Ended
<1>7. QED
  BY <1>1, <1>2, <1>3, <1>4, <1>5, <1>6, CoverRefuse, CoverAdvance

\* What a capture makes of the row.
LEMMA CapturedCovers ==
  ASSUME NEW r, NEW s, RowFields(Work(r, s)), Work(r, s).symbol = s, NEW p, p = FormOf(Work(r, s).form).plan, NEW q
  PROVE  LET entry == Captured(r, s, CaptureReferences(ReferenceFields(p, s), q)) IN
         Covered(entry) /\ entry.captured = Work(r, s).captured \cup {r} /\ entry.refreshed = Work(r, s).refreshed
<1> DEFINE taken == CaptureReferences(ReferenceFields(p, s), q)
           entry == Captured(r, s, taken)
<1>1. Pairs(taken) = ReferenceFields(p, s)
  BY FieldsArePairs, PairsOfCapture
<1> HIDE DEF taken
<1>2. /\ entry.refs = taken /\ entry.shown = taken /\ entry.form = Work(r, s).form /\ entry.symbol = s
      /\ entry.captured = Work(r, s).captured \cup {r} /\ entry.refreshed = Work(r, s).refreshed
  BY DEF Captured, RowFields
<1> HIDE DEF entry
<1>3. Covered(entry)
  BY <1>1, <1>2 DEF Covered
<1>4. QED
  BY <1>2, <1>3 DEF entry, taken

LEMMA ReferencedCovers ==
  ASSUME ScheduleIInv, ScheduleTypes, CoverIInv, NEW r \in Requests, NEW s \in Symbols, Referenced(r, s)
  PROVE  CoverIInv'
<1> DEFINE f == F(r)
           w == Work(r, s)
           now == rows[job[r].target]
           uses == PlanUsesReference(f.plan)
           rest == IF f.kind = "drop" THEN "flushed" ELSE "snapshot"
           bare == [w EXCEPT !.shown = {}]
           full == Captured(r, s, CaptureReferences(ReferenceFields(f.plan, s), answers[s]))
<1>1. At(r, s, {"references"}) /\ f.kind # "refresh" /\ rows' = rows
  BY DEF Referenced
<1>2. /\ Working(r, s) /\ TaskOf(r, s).at = "references" /\ RowFields(w) /\ w.symbol = s /\ w.form = job[r].form
      /\ f = FormOf(w.form) /\ At(r, s, {"references", "snapshot"})
  <2>1. /\ Working(r, s) /\ TaskOf(r, s).at = "references" /\ RowFields(w) /\ w.symbol = s /\ w.form = job[r].form
    BY <1>1, AtWork DEF Ended
  <2>2. At(r, s, {"references", "snapshot"})
    BY <1>1 DEF At
  <2>3. QED
    BY <2>1, <2>2 DEF F
<1>3. \/ Refuse(r, s, "data")
      \/ ~uses /\ Step(r, s, rest, bare)
      \/ Step(r, s, rest, full)
  <2> DEFINE can == Capturable(ReferenceFields(f.plan, s), answers[s])
  <2>1. /\ rows' = rows
        /\ CASE ~uses -> Step(r, s, rest, bare)
             [] uses /\ can -> Step(r, s, rest, full)
             [] OTHER -> Refuse(r, s, "data")
    BY DEF Referenced
  <2> HIDE DEF uses, rest, bare, full, can
  <2>2. QED
    BY <2>1
<1>4. /\ ~uses => Covered(bare)
      /\ bare.form = w.form /\ bare.refs = w.refs /\ bare.captured = w.captured /\ bare.refreshed = w.refreshed
  BY <1>2 DEF Covered, RowFields
<1>5. Covered(full) /\ full.captured = w.captured \cup {r} /\ full.refreshed = w.refreshed
  BY <1>2, CapturedCovers
<1> HIDE DEF bare, full
<1>6. f.kind # "edit" => w.captured \subseteq {r} /\ w.refreshed = {}
  BY <1>1, <1>2, OwnAtWork DEF OwnCover
<1>7. f.kind # "edit" => OwnCover(r, rest, full) /\ (~uses => OwnCover(r, rest, bare))
  BY <1>4, <1>5, <1>6 DEF OwnCover
<1>8. f.kind = "edit" => ~Locked(r, s) /\ w.captured = now.captured /\ w.refs = now.refs /\ w.refreshed = now.refreshed
  BY <1>2, OwnAtWork DEF EditCover
<1>9. f.kind = "edit" => EditCover(r, "snapshot", full, now) /\ (~uses => EditCover(r, "snapshot", bare, now))
  BY <1>2, <1>4, <1>5, <1>8 DEF EditCover
<1>10. f.kind = "edit" => rest = "snapshot"
  OBVIOUS
<1> HIDE DEF uses, rest, now
<1>11. CASE Refuse(r, s, "data")
  BY <1>1, <1>2, <1>11, CoverRefuse
<1>12. ASSUME NEW entry \in {bare, full}, Step(r, s, rest, entry), entry = full \/ ~uses
       PROVE  CoverIInv'
  <2>1. f.kind # "edit" => OwnCover(r, rest, entry)
    BY <1>7, <1>12
  <2>2. f.kind = "edit" => EditCover(r, rest, entry, now) /\ ~Locked(r, s)
    BY <1>8, <1>9, <1>10, <1>12
  <2>3. QED
    BY <1>1, <1>2, <1>12, <2>1, <2>2, CoverAdvance DEF now
<1>13. QED
  BY <1>3, <1>11, <1>12

LEMMA PreflightedCovers ==
  ASSUME ScheduleIInv, ScheduleTypes, CoverIInv, NEW r \in Requests, NEW s \in Symbols, NEW readable \in BOOLEAN,
         Preflighted(r, s, readable)
  PROVE  CoverIInv'
<1> DEFINE next == [TaskOf(r, s) EXCEPT !.at = AfterPreflight(F(r))]
<1>1. /\ At(r, s, {"preflight"}) /\ rows' = rows
      /\ Works(r, s, next, readable) \/ Works(r, s, Failed(r, s, "preflight"), readable)
  BY DEF Preflighted
<1>2. Working(r, s) /\ TaskFields(TaskOf(r, s)) /\ TaskOf(r, s).tries \in Nat /\ F(r).kind # "refresh"
  BY <1>1, AtWork DEF Ended
<1>3. TaskFields(next) /\ next.at \in {"checks", "baseline"} /\ next.tries \in Nat /\ next.row = Work(r, s)
  BY <1>2 DEF TaskFields, AfterPreflight, Work, TaskOf
<1> HIDE DEF next
<1>4. F(r).kind \notin {"edit", "refresh"} => OwnCover(r, next.at, next.row)
  BY <1>2, <1>3, OwnAtWork DEF OwnCover
<1>5. CASE Works(r, s, next, readable)
  <2>1. next.at \notin {"references", "snapshot"}
    BY <1>3
  <2>2. QED
    BY <1>1, <1>2, <1>3, <1>4, <1>5, <2>1, CoverTask
<1>6. CASE Works(r, s, Failed(r, s, "preflight"), readable)
  <2> DEFINE task == Failed(r, s, "preflight")
  <2>1. TaskFields(task) /\ task.tries \in Nat /\ task.at = "failed"
    BY <1>2, FailFits DEF TaskFits
  <2> HIDE DEF task
  <2>2. task.at \in Ended /\ task.at \notin {"references", "snapshot"}
    BY <2>1 DEF Ended
  <2>3. Works(r, s, task, readable)
    BY <1>6 DEF task
  <2>4. QED
    BY <1>1, <1>2, <2>1, <2>2, <2>3, CoverTask
<1>7. QED
  BY <1>1, <1>5, <1>6

\* What a save commits: a new order, or that of an edit.
LEMMA SaveCovers ==
  ASSUME ScheduleIInv, CoverIInv, NEW r \in Requests, NEW s \in Symbols, At(r, s, {"snapshot"}), NEW readable,
         Commit(RowId(r, s), Snapshot(F(r), Keyed(F(r), Work(r, s)), answers[s], readable))
  PROVE  /\ DOMAIN rows \subseteq DOMAIN rows'
         /\ \A id \in DOMAIN rows :
              \/ rows'[id] = rows[id]
              \/ /\ id = job[r].target /\ F(r).kind = "edit" /\ Grown(r, rows[id], rows'[id]) /\ ~Locked(r, s)
                 /\ Covered(rows'[id])
         /\ \A id \in DOMAIN rows' \ DOMAIN rows :
              /\ Covered(rows'[id]) /\ F(r).kind \notin {"edit", "refresh"}
              /\ rows'[id].captured \cup rows'[id].refreshed \subseteq {r}
<1> DEFINE w == Work(r, s)
           now == rows[job[r].target]
           entry == Snapshot(F(r), Keyed(F(r), w), answers[s], readable)
           id == RowId(r, s)
<1>1. /\ Working(r, s) /\ F(r).kind \notin {"refresh", "drop"} /\ RowFields(w) /\ TaskOf(r, s).at = "snapshot"
      /\ job[r].stage = "running" /\ TaskOf(r, s).tries \in Nat
  BY AtWork DEF Ended
<1>2. /\ entry.symbol = w.symbol /\ entry.form = w.form /\ entry.refs = w.refs /\ entry.shown = w.shown
      /\ entry.captured = w.captured /\ entry.refreshed = w.refreshed /\ entry.overtaken = w.overtaken
  BY <1>1, SnapshotFacts
<1>3. DOMAIN rows' = DOMAIN rows \cup {id} /\ \A i \in DOMAIN rows' : rows'[i] = IF i = id THEN entry ELSE rows[i]
  BY DEF Commit
<1> HIDE DEF entry
<1>4. Covered(w) => Covered(entry)
  BY <1>2 DEF Covered
<1>5. CASE F(r).kind = "edit"
  <2>1. At(r, s, {"references", "snapshot"})
    BY DEF At
  <2>2. EditCover(r, "snapshot", w, now) /\ ~Locked(r, s)
    BY <1>1, <1>5, <2>1, OwnAtWork
  <2>3. id = job[r].target /\ id \in DOMAIN rows
    BY <1>1, <1>5 DEF RowId, ScheduleIInv, TargetKept
  <2>4. r \notin now.captured
    BY <1>1, <1>5, <2>3 DEF CoverIInv, RowsSpent, Spent
  <2> HIDE DEF w, now, id
  <2>5. Grown(r, now, entry)
    BY <1>2, <2>2, <2>4 DEF EditCover, Grown
  <2>6. Covered(entry)
    BY <1>4, <2>2 DEF EditCover
  <2>7. QED
    BY <1>3, <1>5, <2>2, <2>3, <2>5, <2>6 DEF now
<1>6. CASE F(r).kind # "edit"
  <2>1. OwnCover(r, "snapshot", w)
    BY <1>1, <1>6, OwnAtWork
  <2>2. id = <<r, s, TaskOf(r, s).tries>>
    BY <1>6 DEF RowId, TaskOf
  <2>3. id \notin DOMAIN rows
    <3> SUFFICES ASSUME id \in DOMAIN rows PROVE FALSE
      OBVIOUS
    <3>1. Identified(id) /\ id[1] = r /\ id[2] = s /\ id[3] = TaskOf(r, s).tries
      BY <2>2 DEF ScheduleIInv, RowsCommitted
    <3> HIDE DEF id
    <3>2. QED
      BY <1>1, <3>1 DEF Identified, Ended
  <2> HIDE DEF w, id
  <2>4. Covered(entry) /\ entry.captured \cup entry.refreshed \subseteq {r}
    BY <1>2, <1>4, <2>1 DEF OwnCover
  <2>5. QED
    BY <1>1, <1>3, <1>6, <2>3, <2>4
<1>7. QED
  BY <1>5, <1>6

LEMMA SavedCovers ==
  ASSUME ScheduleIInv, ScheduleTypes, CoverIInv, NEW r \in Requests, NEW s \in Symbols, NEW readable \in BOOLEAN,
         Saved(r, s, readable)
  PROVE  CoverIInv'
<1> DEFINE task == [TaskOf(r, s) EXCEPT !.at = "done", !.row = NoRow]
<1>1. /\ At(r, s, {"snapshot"}) /\ Works(r, s, task, readable)
      /\ Commit(RowId(r, s), Snapshot(F(r), Keyed(F(r), Work(r, s)), answers[s], readable))
  BY DEF Saved
<1>2. Working(r, s) /\ TaskFields(TaskOf(r, s)) /\ TaskOf(r, s).tries \in Nat
  BY <1>1, AtWork DEF Ended
<1>3. TaskFields(task) /\ task.tries \in Nat /\ task.at = "done"
  BY <1>2 DEF TaskFields
<1> HIDE DEF task
<1>4. task.at \in Ended /\ task.at \notin {"references", "snapshot"}
  BY <1>3 DEF Ended
<1>5. /\ DOMAIN rows \subseteq DOMAIN rows'
      /\ \A id \in DOMAIN rows :
           \/ rows'[id] = rows[id]
           \/ /\ id = job[r].target /\ F(r).kind = "edit" /\ Grown(r, rows[id], rows'[id]) /\ ~Locked(r, s)
              /\ Covered(rows'[id])
      /\ \A id \in DOMAIN rows' \ DOMAIN rows :
           /\ Covered(rows'[id]) /\ F(r).kind \notin {"edit", "refresh"}
           /\ rows'[id].captured \cup rows'[id].refreshed \subseteq {r}
  BY <1>1, SaveCovers
<1>6. QED
  BY <1>1, <1>2, <1>3, <1>4, <1>5, CoverTask

\* What a failed call leaves: the draft of another attempt, a row in its session, or nothing.
LEMMA AfterFaultCovers ==
  ASSUME ScheduleIInv, CoverIInv, NEW r \in Requests, NEW s \in Symbols, NEW transient,
         At(r, s, {"preflight", "baseline", "checks", "references", "snapshot"})
  PROVE  LET task == AfterFault(r, s, transient) IN
         /\ TaskFields(task) /\ task.tries \in Nat /\ task.at \in Ended \cup {"baseline", "stray"}
         /\ F(r).kind \in {"edit", "refresh"} => task.at \in Ended
         /\ F(r).kind \notin {"edit", "refresh"} /\ task.at \notin Ended => OwnCover(r, task.at, task.row)
<1> DEFINE task == TaskOf(r, s)
           again == [task EXCEPT !.at = "baseline", !.tries = task.tries + 1, !.row = DraftOf(F(r), s)]
           stray == [task EXCEPT !.at = "stray", !.error = "fault"]
           after == AfterFault(r, s, transient)
<1>1. Working(r, s) /\ TaskFields(task) /\ task.tries \in Nat
  BY AtWork DEF Ended
<1>2. \/ F(r).kind = "batch" /\ after = again
      \/ F(r).kind = "drop" /\ after = stray
      \/ after = Failed(r, s, "fault")
  BY DEF AfterFault
<1>3. CASE F(r).kind = "batch" /\ after = again
  <2>1. TaskFields(again) /\ again.at = "baseline" /\ again.tries \in Nat /\ again.row = DraftOf(F(r), s)
    BY <1>1 DEF TaskFields
  <2> HIDE DEF again
  <2>2. OwnCover(r, "baseline", DraftOf(F(r), s))
    BY DraftFacts DEF OwnCover
  <2>3. QED
    BY <1>3, <2>1, <2>2
<1>4. CASE F(r).kind = "drop" /\ after = stray
  <2>1. TaskFields(stray) /\ stray.at = "stray" /\ stray.tries \in Nat /\ stray.row = Work(r, s)
    BY <1>1 DEF TaskFields, Work, TaskOf
  <2> HIDE DEF stray
  <2>2. OwnCover(r, "stray", Work(r, s))
    BY <1>1, <1>4, OwnAtWork DEF OwnCover
  <2>3. QED
    BY <1>4, <2>1, <2>2
<1>5. CASE after = Failed(r, s, "fault")
  <2>1. TaskFields(after) /\ after.tries \in Nat /\ after.at = "failed"
    BY <1>1, <1>5, FailFits DEF TaskFits
  <2> HIDE DEF after
  <2>2. after.at \in Ended
    BY <2>1 DEF Ended
  <2>3. QED
    BY <2>1, <2>2 DEF after
<1>6. QED
  BY <1>2, <1>3, <1>4, <1>5

LEMMA FaultCovers ==
  ASSUME ScheduleIInv, ScheduleTypes, CoverIInv, NEW r \in Requests, NEW s \in Symbols, NEW b \in BOOLEAN,
         Fault(r, s, b) \/ CommitFault(r, s, b)
  PROVE  CoverIInv'
<1>1. PICK transient \in BOOLEAN :
        /\ At(r, s, {"preflight", "baseline", "checks", "references", "snapshot"})
        /\ Works(r, s, AfterFault(r, s, transient), FALSE)
        /\ \/ rows' = rows
           \/ /\ At(r, s, {"snapshot"})
              /\ Commit(RowId(r, s), Snapshot(F(r), Keyed(F(r), Work(r, s)), answers[s], TRUE))
  BY DEF Fault, CommitFault, At
<1>2. Working(r, s)
  BY <1>1, AtWork DEF Ended
<1> DEFINE task == AfterFault(r, s, transient)
<1>3. /\ TaskFields(task) /\ task.tries \in Nat /\ task.at \in Ended \cup {"baseline", "stray"}
      /\ F(r).kind \in {"edit", "refresh"} => task.at \in Ended
      /\ F(r).kind \notin {"edit", "refresh"} /\ task.at \notin Ended => OwnCover(r, task.at, task.row)
  BY <1>1, AfterFaultCovers
<1> HIDE DEF task
<1>4. task.at \notin {"references", "snapshot"}
  BY <1>3 DEF Ended
<1>5. /\ DOMAIN rows \subseteq DOMAIN rows'
      /\ \A id \in DOMAIN rows :
           \/ rows'[id] = rows[id]
           \/ /\ id = job[r].target /\ F(r).kind = "edit" /\ Grown(r, rows[id], rows'[id]) /\ ~Locked(r, s)
              /\ Covered(rows'[id])
      /\ \A id \in DOMAIN rows' \ DOMAIN rows :
           /\ Covered(rows'[id]) /\ F(r).kind \notin {"edit", "refresh"}
           /\ rows'[id].captured \cup rows'[id].refreshed \subseteq {r}
  BY <1>1, SaveCovers
<1>6. Works(r, s, task, FALSE)
  BY <1>1 DEF task
<1>7. QED
  BY <1>2, <1>3, <1>4, <1>5, <1>6, CoverTask

\* Rows of a table that other values replace are rows of the same fields.
LEMMA PairsOver ==
  ASSUME NEW refs, NEW changed, Pairs(changed) \subseteq Pairs(refs)
  PROVE  Pairs(Over(refs, changed)) = Pairs(refs)
<1>1. ASSUME NEW y \in Pairs(Over(refs, changed)) PROVE y \in Pairs(refs)
  <2>1. PICK x \in Over(refs, changed) : y = <<x[1], x[2]>>
    BY <1>1 DEF Pairs
  <2>2. x \in refs \/ x \in changed
    BY <2>1 DEF Over
  <2>3. x \in refs => y \in Pairs(refs)
    BY <2>1 DEF Pairs
  <2>4. x \in changed => y \in Pairs(changed)
    BY <2>1 DEF Pairs
  <2>5. QED
    BY <2>2, <2>3, <2>4
<1>2. ASSUME NEW y \in Pairs(refs) PROVE y \in Pairs(Over(refs, changed))
  <2>1. PICK x \in refs : y = <<x[1], x[2]>>
    BY <1>2 DEF Pairs
  <2>2. CASE y \in Pairs(changed)
    <3>1. PICK z \in changed : y = <<z[1], z[2]>>
      BY <2>2 DEF Pairs
    <3>2. z \in Over(refs, changed)
      BY DEF Over
    <3>3. QED
      BY <3>1, <3>2 DEF Pairs
  <2>3. CASE y \notin Pairs(changed)
    <3>1. x \in Over(refs, changed)
      BY <2>1, <2>3 DEF Over
    <3>2. QED
      BY <2>1, <3>1 DEF Pairs
  <2>4. QED
    BY <2>2, <2>3
<1>3. QED
  BY <1>1, <1>2

\* What a refresh commits is covered: by what it read, or by what it found.
LEMMA RefreshCovers ==
  ASSUME NEW now, RowFields(now), NEW read, NEW r, NEW q, NEW fields \in SUBSET Pairs(read.refs),
         \A x \in fields : x = <<x[1], x[2]>>,
         now.captured = read.captured, now.symbol = read.symbol, Covered(now), Covered(read), ReadCover(read, now),
         r \notin now.refreshed
  PROVE  LET changed == CaptureReferences(fields, q) \ read.refs
             entry == Copied(Fresh(now, read, changed, r), read, Over(read.refs, changed)) IN
         Covered(entry) /\ Grown(r, now, entry)
<1> DEFINE changed == CaptureReferences(fields, q) \ read.refs
           mine == Over(read.refs, changed)
           entry == Copied(Fresh(now, read, changed, r), read, mine)
<1>1. Pairs(now.refs) = Pairs(read.refs)
      /\ (now.refreshed = read.refreshed =>
            now.refs = read.refs /\ (now.shown = read.shown \/ ~PlanUsesReference(FormOf(now.form).plan)))
  BY DEF ReadCover
<1>2. Pairs(changed) \subseteq Pairs(read.refs)
  <2>1. Pairs(CaptureReferences(fields, q)) = fields
    BY PairsOfCapture
  <2>2. Pairs(changed) \subseteq Pairs(CaptureReferences(fields, q))
    BY DEF Pairs
  <2>3. QED
    BY <2>1, <2>2
<1> HIDE DEF changed
<1>3. Pairs(Over(now.refs, changed)) = Pairs(now.refs) /\ Pairs(mine) = Pairs(read.refs)
  BY <1>1, <1>2, PairsOver
<1> HIDE DEF mine
<1>4. /\ entry.symbol = now.symbol /\ entry.refs = Over(now.refs, changed) /\ entry.captured = now.captured
      /\ entry.refreshed = now.refreshed \cup {r} /\ entry.overtaken = (now.refreshed # read.refreshed)
      /\ mine = read.shown => entry.shown = now.shown /\ entry.form = now.form
      /\ mine # read.shown => entry.shown = mine /\ entry.form = read.form
  BY RefreshedRow
<1> HIDE DEF entry
<1>5. now.refreshed # read.refreshed => entry.overtaken
  BY <1>4, Zenon
<1>6. Grown(r, now, entry)
  BY <1>3, <1>4 DEF Grown
<1>7. now.refreshed = read.refreshed => entry.refs = mine
  BY <1>1, <1>4 DEF mine
<1>8. ASSUME mine = read.shown PROVE Covered(entry)
  <2> SUFFICES ASSUME PlanUsesReference(FormOf(now.form).plan)
               PROVE  /\ Pairs(now.shown) = ReferenceFields(FormOf(now.form).plan, now.symbol)
                      /\ Pairs(entry.refs) = Pairs(now.shown)
                      /\ entry.refs = now.shown \/ now.refreshed # read.refreshed
    BY <1>4, <1>8, <1>5 DEF Covered
  <2>1. Pairs(now.shown) = ReferenceFields(FormOf(now.form).plan, now.symbol) /\ Pairs(now.refs) = Pairs(now.shown)
    BY DEF Covered
  <2>2. now.refreshed = read.refreshed => entry.refs = now.shown
    BY <1>1, <1>7, <1>8
  <2>3. QED
    BY <1>3, <1>4, <2>1, <2>2
<1>9. ASSUME mine # read.shown PROVE Covered(entry)
  <2> SUFFICES ASSUME PlanUsesReference(FormOf(read.form).plan)
               PROVE  /\ Pairs(mine) = ReferenceFields(FormOf(read.form).plan, now.symbol)
                      /\ Pairs(entry.refs) = Pairs(mine)
                      /\ entry.refs = mine \/ now.refreshed # read.refreshed
    BY <1>4, <1>9, <1>5 DEF Covered
  <2>1. Pairs(read.shown) = ReferenceFields(FormOf(read.form).plan, read.symbol) /\ Pairs(read.refs) = Pairs(read.shown)
    BY DEF Covered
  <2>2. QED
    BY <1>1, <1>3, <1>4, <1>7, <2>1
<1>10. Covered(entry)
  BY <1>8, <1>9
<1>11. QED
  BY <1>6, <1>10 DEF entry, mine, changed

LEMMA RefreshedCovers ==
  ASSUME ScheduleIInv, ScheduleTypes, ReadTypes, CoverIInv, NEW r \in Requests, NEW s \in Symbols, Refreshed(r, s)
  PROVE  CoverIInv'
<1> DEFINE id == job[r].target
           now == rows[id]
           read == Work(r, s)
           task == [TaskOf(r, s) EXCEPT !.at = "done", !.row = NoRow]
<1>1. At(r, s, {"references"}) /\ F(r).kind = "refresh"
  BY RefreshedDoes
<1>2. Working(r, s) /\ TaskFields(TaskOf(r, s)) /\ TaskOf(r, s).tries \in Nat /\ id \in DOMAIN rows /\ RowFields(now)
  BY <1>1, AtWork DEF Ended, ScheduleIInv, RowsCommitted
<1>3. CASE \E error : Refuse(r, s, error) /\ rows' = rows
  BY <1>2, <1>3, CoverRefuse
<1>4. ASSUME NEW fields, NEW q, fields \subseteq Pairs(read.refs), \A x \in fields : x = <<x[1], x[2]>>,
             Step(r, s, "done", NoRow), ~Locked(r, s), now.captured = read.captured,
             LET changed == CaptureReferences(fields, q) \ read.refs IN
               Commit(id, Copied(Fresh(now, read, changed, r), read, Over(read.refs, changed)))
      PROVE  CoverIInv'
  <2> DEFINE changed == CaptureReferences(fields, q) \ read.refs
             entry == Copied(Fresh(now, read, changed, r), read, Over(read.refs, changed))
  <2>1. ReadCover(read, now) /\ (Covered(read) \/ Reported(id)) /\ (Covered(now) \/ Reported(id))
    BY <1>1, <1>2 DEF CoverIInv, TasksCovered, TaskCover, RowsCovered
  <2>2. now.symbol = read.symbol
    BY <1>1, <1>2 DEF ReadTypes, Reading, ScheduleTypes, RowTypes
  <2>3. r \notin now.captured \cup now.refreshed
    BY <1>1, <1>2 DEF CoverIInv, RowsSpent, Spent
  <2>4. Grown(r, now, entry)
    <3>1. entry.captured = now.captured /\ entry.refreshed = now.refreshed \cup {r} /\ entry.refs = Over(now.refs, changed)
      BY <1>2, RefreshedRow
    <3>2. Pairs(now.refs) = Pairs(read.refs)
      BY <1>4, <2>1 DEF ReadCover
    <3>3. Pairs(CaptureReferences(fields, q)) = fields
      BY <1>4, PairsOfCapture
    <3>4. Pairs(changed) \subseteq Pairs(CaptureReferences(fields, q))
      BY DEF Pairs
    <3> HIDE DEF entry, changed, now, read
    <3>5. Pairs(Over(now.refs, changed)) = Pairs(now.refs)
      BY <1>4, <3>2, <3>3, <3>4, PairsOver
    <3>6. QED
      BY <2>3, <3>1, <3>5 DEF Grown
  <2>5. Covered(entry) \/ Reported(id)
    <3>1. fields \in SUBSET Pairs(read.refs) /\ r \notin now.refreshed
      BY <1>4, <2>3
    <3> HIDE DEF now, read, id
    <3>2. QED
      BY <1>2, <1>4, <2>1, <2>2, <3>1, RefreshCovers
  <2>6. Commit(id, entry)
    BY <1>4
  <2> HIDE DEF entry
  <2>7. DOMAIN rows' = DOMAIN rows /\ \A i \in DOMAIN rows : rows'[i] = IF i = id THEN entry ELSE rows[i]
    BY <1>2, <2>6 DEF Commit
  <2>8. TaskFields(task) /\ task.tries \in Nat /\ task.at = "done" /\ Works(r, s, task, TRUE)
    BY <1>2, <1>4 DEF TaskFields, Step
  <2> HIDE DEF task
  <2>9. task.at \in Ended
    BY <2>8 DEF Ended
  <2>10. \A i \in DOMAIN rows :
           \/ rows'[i] = rows[i]
           \/ i = job[r].target /\ Grown(r, rows[i], rows'[i]) /\ ~Locked(r, s) /\ (Covered(rows'[i]) \/ Reported(i))
    BY <1>4, <2>4, <2>5, <2>7
  <2>11. QED
    BY <1>1, <1>2, <2>7, <2>8, <2>9, <2>10, CoverTask
<1>5. QED
  BY <1>3, <1>4, RefreshedDoes

LEMMA BeginCovers ==
  ASSUME ScheduleIInv, CoverIInv, NEW r \in Requests, NEW name \in DOMAIN Forms, NEW target, Begin(r, Forms[name], target)
  PROVE  CoverIInv'
<1> DEFINE f == Forms[name]
           first(t) == [NewTask EXCEPT !.at = FirstStage(f), !.row = IF f.kind = "refresh" THEN rows[target] ELSE DraftOf(f, t)]
           refused == [NewTask EXCEPT !.at = "failed", !.error = "form"]
           tasks == [t \in Symbols |->
             IF t \notin f.symbols THEN NewTask ELSE IF RefusedAtOnce(f, t, target) THEN refused ELSE first(t)]
           j == [stage |-> IF f.kind = "batch" /\ NeedsPreflight(f) THEN "preflight" ELSE "running",
                 form |-> f.name, target |-> target, saw |-> DOMAIN rows, steady |-> TRUE, task |-> tasks]
<1>1. /\ job[r].stage = "idle" /\ rows' = rows /\ job' = [job EXCEPT ![r] = j]
      /\ f.kind \in {"edit", "refresh"} => target \in Targets(f)
  BY DEF Begin
<1>2. job'[r] = j /\ \A p \in Requests : p # r => job'[p] = job[p]
  BY <1>1 DEF ScheduleIInv, JobShape
<1>3. /\ \A t \in Symbols : first(t).at = FirstStage(f) /\ first(t).row = (IF f.kind = "refresh" THEN rows[target] ELSE DraftOf(f, t))
      /\ refused.at = "failed"
  BY DEF NewTask
<1> HIDE DEF first, refused
<1>4. \A t \in f.symbols : t \in Symbols => tasks[t] = first(t) \/ tasks[t].at = "failed"
  BY <1>3
<1> HIDE DEF tasks
<1>5. j.form = f.name /\ j.target = target /\ j.task = tasks
  OBVIOUS
<1> HIDE DEF j
<1>6. F(r)' = f /\ job'[r].target = target /\ \A t \in Symbols : TaskOf(r, t)' = tasks[t] /\ Work(r, t)' = tasks[t].row
  BY <1>2, <1>5, SchedulesAssumption DEF F, FormOf, TaskOf, Work
<1>7. ASSUME NEW t \in Symbols, Working(r, t)'
      PROVE  /\ TaskOf(r, t)'.at = FirstStage(f)
             /\ Work(r, t)' = IF f.kind = "refresh" THEN rows[target] ELSE DraftOf(f, t)
  <2>1. t \in f.symbols /\ tasks[t].at \notin Ended
    BY <1>6, <1>7 DEF Working
  <2>2. tasks[t] = first(t)
    BY <1>4, <2>1 DEF Ended
  <2>3. QED
    BY <1>3, <1>6, <2>2
<1>8. FirstStage(f) \notin {"snapshot", "flushed"} /\ (f.kind = "edit" => FirstStage(f) # "references")
  BY DEF FirstStage
<1>9. \A t \in Symbols : ~LocksRow(r, t)'
  <2> SUFFICES ASSUME NEW t \in Symbols, LocksRow(r, t)' PROVE FALSE
    OBVIOUS
  <2>1. /\ f.kind = "edit" /\ job'[r].stage = "running" /\ t \in F(r)'.symbols
        /\ TaskOf(r, t)'.at \in {"references", "snapshot"}
    BY <1>6 DEF LocksRow, At, TaskOf
  <2>2. Working(r, t)'
    BY <2>1 DEF Working, Ended
  <2>3. QED
    BY <1>7, <1>8, <2>1, <2>2
<1>10. \A id \in DOMAIN rows : id[1] # r
  BY <1>1, NoRowYet
<1>11. f.kind = "refresh" => target \in DOMAIN rows /\ ReadCover(rows[target], rows[target])
                             /\ (Covered(rows[target]) \/ (Reported(job[r].target)' ))
  <2> SUFFICES ASSUME f.kind = "refresh", NEW id, id = target
               PROVE  id \in DOMAIN rows /\ ReadCover(rows[id], rows[id]) /\ (Covered(rows[id]) \/ Reported(id)')
    BY <1>6 DEF Reported, F
  <2>1. id \in DOMAIN rows
    BY <1>1 DEF Targets
  <2>2. ReadCover(rows[id], rows[id])
    BY DEF ReadCover
  <2>3. Covered(rows[id]) \/ Reported(id)
    BY <2>1 DEF CoverIInv, RowsCovered
  <2>4. job'[id[1]] = job[id[1]]
    BY <1>2, <1>10, <2>1, RequestOfRow
  <2>5. QED
    BY <2>1, <2>2, <2>3, <2>4 DEF Reported, F
<1>12. ASSUME NEW t \in Symbols PROVE TaskCover(r, t)'
  <2> SUFFICES ASSUME Working(r, t)'
               PROVE  /\ f.kind \notin {"edit", "refresh"} => OwnCover(r, TaskOf(r, t)'.at, Work(r, t)')
                      /\ f.kind = "refresh" => /\ ReadCover(Work(r, t)', rows[target])
                                               /\ Covered(Work(r, t)') \/ Reported(job[r].target)'
    BY <1>1, <1>6, <1>9 DEF TaskCover, OwnCover, ReadCover, Covered, FormOf
  <2>1. f.kind \notin {"edit", "refresh"} => OwnCover(r, FirstStage(f), DraftOf(f, t))
    BY <1>8, DraftFacts DEF OwnCover
  <2> HIDE DEF f
  <2>2. QED
    BY <1>7, <1>11, <2>1
<1>13. QED
  BY <1>1, <1>2, <1>9, <1>10, <1>12, CoverFrame

LEMMA BatchPreflightedCovers ==
  ASSUME ScheduleIInv, CoverIInv, NEW r \in Requests, BatchPreflighted(r)
  PROVE  CoverIInv'
<1> DEFINE gate == PlanStatus(F(r).plan, F(r).side, "")
           verdict == IF gate # "ready" THEN [status |-> gate, named |-> {}]
                      ELSE Preflight(F(r).plan, "", answers, Held, FALSE, F(r).drop)
           blamed == IF verdict.named = {} THEN F(r).symbols ELSE F(r).symbols \cap verdict.named
           tasks == [s \in Symbols |-> IF s \in blamed THEN Failed(r, s, verdict.status) ELSE TaskOf(r, s)]
           running == [job[r] EXCEPT !.stage = "running"]
           done == [job[r] EXCEPT !.stage = "done", !.task = tasks]
<1>1. /\ job[r].stage = "preflight" /\ rows' = rows
      /\ job' = IF verdict.status = "ready" THEN [job EXCEPT ![r].stage = "running"]
                ELSE [job EXCEPT ![r].stage = "done", ![r].task = tasks]
  BY DEF BatchPreflighted
<1> HIDE DEF verdict, blamed, tasks
<1>2. JobFields(job[r]) /\ F(r).kind = "batch" /\ DOMAIN job = Requests
  BY <1>1 DEF ScheduleIInv, JobShape
<1>3. job' = [job EXCEPT ![r] = running] \/ job' = [job EXCEPT ![r] = done]
  BY <1>1
<1>4. /\ running.stage = "running" /\ running.task = job[r].task /\ running.form = job[r].form /\ running.target = job[r].target
      /\ done.stage = "done" /\ done.form = job[r].form /\ done.target = job[r].target
  BY <1>2 DEF JobFields
<1> HIDE DEF running, done
<1>5. /\ \A p \in Requests : p # r => job'[p] = job[p]
      /\ job'[r].form = job[r].form /\ job'[r].target = job[r].target
      /\ \/ job'[r].stage = "running" /\ job'[r].task = job[r].task
         \/ job'[r].stage = "done"
  BY <1>2, <1>3, <1>4
<1>6. F(r)' = F(r)
  BY <1>5 DEF F
<1>7. ASSUME NEW t \in Symbols, Working(r, t)'
      PROVE  Working(r, t) /\ TaskOf(r, t)' = TaskOf(r, t) /\ Work(r, t)' = Work(r, t)
  BY <1>1, <1>5, <1>6, <1>7 DEF Working, TaskOf, Work
<1>8. \A t \in Symbols : ~LocksRow(r, t)'
  BY <1>2, <1>6 DEF LocksRow
<1>9. ASSUME NEW t \in Symbols PROVE TaskCover(r, t)'
  <2> SUFFICES ASSUME Working(r, t)' PROVE OwnCover(r, TaskOf(r, t)'.at, Work(r, t)')
    BY <1>2, <1>6, <1>8 DEF TaskCover, OwnCover, Covered, FormOf
  <2>1. QED
    BY <1>2, <1>7, OwnAtWork
<1>10. \A id \in DOMAIN rows : id[1] # r
  BY <1>1, NoRowYet
<1>11. QED
  BY <1>1, <1>5, <1>6, <1>7, <1>8, <1>9, <1>10, CoverFrame

LEMMA DropCommitCovers ==
  ASSUME ScheduleIInv, CoverIInv, NEW r \in Requests, DropCommit(r)
  PROVE  CoverIInv'
<1> DEFINE flushed == {s \in F(r).symbols : job[r].task[s].at \in {"flushed", "stray"}}
           kept == IF \E s \in flushed : job[r].task[s].at = "flushed" THEN flushed ELSE {}
           made == {<<r, s, 1>> : s \in kept}
           released(s) == [TaskOf(r, s) EXCEPT !.row = NoRow,
                             !.at = CASE @ = "flushed" -> "done" [] @ = "stray" -> "failed" [] OTHER -> @]
           tasks == [s \in Symbols |-> released(s)]
           j == [job[r] EXCEPT !.stage = "done", !.task = tasks]
<1>1. /\ job[r].stage = "running" /\ F(r).kind = "drop" /\ job' = [job EXCEPT ![r] = j]
      /\ rows' = [id \in DOMAIN rows \cup made |-> IF id \in made THEN Work(r, id[2]) ELSE rows[id]]
  BY DEF DropCommit
<1>2. /\ JobFields(job[r]) /\ F(r).symbols \subseteq Symbols /\ DOMAIN job = Requests
      /\ \A s \in Symbols : TaskFields(TaskOf(r, s))
  BY <1>1, FormFacts DEF ScheduleIInv, JobShape
<1>3. \A s \in Symbols : TaskOf(r, s).at = "stray" => released(s).at = "failed"
  BY <1>2 DEF TaskFields
<1> HIDE DEF released
<1>4. \A s \in Symbols : tasks[s] = released(s)
  OBVIOUS
<1> HIDE DEF tasks
<1>5. j.task = tasks /\ j.form = job[r].form /\ j.stage = "done" /\ j.target = job[r].target
  BY <1>2 DEF JobFields
<1> HIDE DEF j
<1>6. job'[r] = j /\ \A p \in Requests : p # r => job'[p] = job[p]
  BY <1>1, <1>2
<1>7. F(r)' = F(r) /\ job'[r].stage = "done" /\ \A s \in Symbols : TaskOf(r, s)' = released(s)
  BY <1>4, <1>5, <1>6 DEF F, TaskOf
<1>8. \A t \in Symbols : ~Working(r, t)' /\ ~LocksRow(r, t)'
  BY <1>1, <1>7 DEF Working, LocksRow
<1>9. \A t \in Symbols : TaskCover(r, t)'
  BY <1>8 DEF TaskCover
<1>10. \A id \in DOMAIN rows : id[1] # r
  BY <1>1, NoRowYet
<1>11. \A id \in DOMAIN rows : rows'[id] = rows[id]
  BY <1>1, <1>10
<1>12. Spent(r)'
  BY <1>7, <1>8 DEF Spent
<1>13. ASSUME NEW id \in DOMAIN rows' \ DOMAIN rows
       PROVE  (Covered(rows'[id]) \/ Reported(id)') /\ rows'[id].captured \cup rows'[id].refreshed \subseteq {r}
  <2>1. id \in made /\ rows'[id] = Work(r, id[2])
    BY <1>1, <1>13
  <2>2. PICK s \in flushed : id = <<r, s, 1>>
    BY <2>1
  <2>3. s \in Symbols /\ s \in F(r).symbols /\ id[1] = r /\ id[2] = s /\ TaskOf(r, s).at \in {"flushed", "stray"}
    BY <1>2, <2>2 DEF TaskOf
  <2>4. Working(r, s)
    BY <1>1, <2>3 DEF Working, Ended
  <2>5. OwnCover(r, TaskOf(r, s).at, Work(r, s))
    BY <1>1, <2>3, <2>4, OwnAtWork
  <2>6. TaskOf(r, s).at = "stray" => Reported(id)'
    BY <1>1, <1>3, <1>7, <2>3 DEF Reported, TaskOf
  <2>7. QED
    BY <2>1, <2>3, <2>5, <2>6 DEF OwnCover
<1>14. DOMAIN rows \subseteq DOMAIN rows'
  BY <1>1
<1>15. QED
  BY <1>1, <1>5, <1>6, <1>7, <1>8, <1>9, <1>10, <1>11, <1>12, <1>13, <1>14, CoverFrame

\* Steps that leave what the requests do.
LEMMA CoverIdle ==
  ASSUME ScheduleIInv, CoverIInv, rows' = rows,
         \A r \in Requests : job'[r].stage = job[r].stage /\ job'[r].form = job[r].form /\ job'[r].target = job[r].target
                             /\ job'[r].task = job[r].task
  PROVE  CoverIInv'
<1>1. \A r \in Requests : F(r)' = F(r) /\ \A s \in Symbols : TaskOf(r, s)' = TaskOf(r, s) /\ Work(r, s)' = Work(r, s)
  BY DEF F, TaskOf, Work
<1>2. \A r \in Requests, s \in Symbols : /\ Working(r, s)' = Working(r, s) /\ LocksRow(r, s)' = LocksRow(r, s)
                                         /\ Locked(r, s)' = Locked(r, s)
  <2>1. \A r \in Requests, s \in Symbols : Working(r, s)' = Working(r, s) /\ LocksRow(r, s)' = LocksRow(r, s)
    BY <1>1 DEF Working, LocksRow, At
  <2>2. QED
    BY <2>1 DEF Locked
<1>3. \A id : id[1] \in Requests => Reported(id)' = Reported(id)
  BY <1>1 DEF Reported
<1>4. RowsCovered'
  BY <1>3, RequestOfRow DEF CoverIInv, RowsCovered, Covered, FormOf
<1>5. RowsSpent'
  BY <1>1, <1>2 DEF CoverIInv, RowsSpent, Spent
<1>6. OneLock'
  BY <1>2 DEF CoverIInv, OneLock
<1>7. TasksCovered'
  <2> SUFFICES ASSUME NEW r \in Requests, NEW s \in Symbols, NEW id, id = job[r].target, Working(r, s)
               PROVE  /\ F(r).kind \notin {"edit", "refresh"} => OwnCover(r, TaskOf(r, s).at, Work(r, s))
                      /\ LocksRow(r, s) => EditCover(r, TaskOf(r, s).at, Work(r, s), rows[id])
                      /\ F(r).kind = "refresh" => ReadCover(Work(r, s), rows[id]) /\ (Covered(Work(r, s)) \/ Reported(id)')
    BY <1>1, <1>2 DEF TasksCovered, TaskCover, OwnCover, EditCover, ReadCover, Covered, FormOf
  <2>1. TaskCover(r, s)
    BY DEF CoverIInv, TasksCovered
  <2>2. F(r).kind = "refresh" => id[1] \in Requests
    BY RequestOfRow DEF ScheduleIInv, TargetKept, Working
  <2>3. QED
    BY <1>3, <2>1, <2>2 DEF TaskCover
<1>8. QED
  BY <1>4, <1>5, <1>6, <1>7 DEF CoverIInv

LEMMA CoverMove ==
  ASSUME ScheduleIInv, CoverIInv, NEW m \in Markets, Move(m)
  PROVE  CoverIInv'
<1>1. rows' = rows /\ job' = [r \in Requests |-> [job[r] EXCEPT !.steady = job[r].steady /\ job[r].stage = "idle"]]
  BY DEF Move
<1>2. ASSUME NEW r \in Requests
      PROVE  /\ job'[r].stage = job[r].stage /\ job'[r].form = job[r].form /\ job'[r].target = job[r].target
             /\ job'[r].task = job[r].task
  <2> DEFINE j == [job[r] EXCEPT !.steady = job[r].steady /\ job[r].stage = "idle"]
  <2>1. job'[r] = j
    BY <1>1
  <2>2. j.stage = job[r].stage /\ j.form = job[r].form /\ j.target = job[r].target /\ j.task = job[r].task
    BY DEF ScheduleIInv, JobShape, JobFields
  <2> HIDE DEF j
  <2>3. QED
    BY <2>1, <2>2
<1>3. QED
  BY <1>1, <1>2, CoverIdle

LEMMA CoverInductiveInit == ScheduleInit => CoverIInv
<1> SUFFICES ASSUME ScheduleInit PROVE CoverIInv
  OBVIOUS
<1>1. DOMAIN rows = {} /\ \A r \in Requests : job[r] = NewJob
  BY DEF ScheduleInit
<1>2. NewJob.stage = "idle"
  BY DEF NewJob
<1> HIDE DEF NewJob
<1>3. \A r \in Requests, s \in Symbols : ~Working(r, s) /\ ~LocksRow(r, s)
  BY <1>1, <1>2 DEF Working, LocksRow, At
<1>4. QED
  BY <1>1, <1>3 DEF CoverIInv, RowsCovered, RowsSpent, TasksCovered, TaskCover, OneLock

LEMMA CoverInductiveStep ==
  ScheduleIInv /\ ScheduleTypes /\ ReadTypes /\ CoverIInv /\ [ScheduleNext]_scheduleVars => CoverIInv'
<1> SUFFICES ASSUME ScheduleIInv, ScheduleTypes, ReadTypes, CoverIInv, [ScheduleNext]_scheduleVars PROVE CoverIInv'
  OBVIOUS
<1>1. ASSUME NEW r \in Requests, NEW name \in DOMAIN Forms, NEW target \in DOMAIN rows \cup {<<>>},
             Begin(r, Forms[name], target)
      PROVE  CoverIInv'
  BY <1>1, BeginCovers
<1>2. ASSUME NEW r \in Requests, BatchPreflighted(r) \/ DropCommit(r) PROVE CoverIInv'
  BY <1>2, BatchPreflightedCovers, DropCommitCovers
<1>3. ASSUME NEW r \in Requests, NEW s \in Symbols,
             \/ NextSymbol(r, s) \/ Baselined(r, s) \/ Checked(r, s) \/ Referenced(r, s) \/ Refreshed(r, s)
      PROVE  CoverIInv'
  BY <1>3, NextSymbolCovers, BaselinedCovers, CheckedCovers, ReferencedCovers, RefreshedCovers
<1>4. ASSUME NEW r \in Requests, NEW s \in Symbols, NEW b \in BOOLEAN,
             Preflighted(r, s, b) \/ Saved(r, s, b) \/ Fault(r, s, b) \/ CommitFault(r, s, b)
      PROVE  CoverIInv'
  BY <1>4, PreflightedCovers, SavedCovers, FaultCovers
<1>5. ASSUME NEW m \in Markets, Move(m) PROVE CoverIInv'
  BY <1>5, CoverMove
<1>6. CASE UNCHANGED scheduleVars
  BY <1>6, CoverIdle DEF scheduleVars
<1>7. QED
  BY <1>1, <1>2, <1>3, <1>4, <1>5, <1>6 DEF ScheduleNext

\* The references of a committed order are those of its plan, in the table and in the
\* configuration, with the same values unless its last refresh was overtaken by another one:
\* whatever was edited and refreshed at the same time, by however many (reference_capture,
\* reference_refresh).
THEOREM ReferencesEver == ScheduleSpec => []ReferencesCover
<1>1. CoverIInv => ReferencesCover
  BY DEF CoverIInv, RowsCovered, Covered, ReferencesCover, Asks
<1>2. QED
  BY <1>1, CoverInductiveInit, CoverInductiveStep, ScheduleTypesInit, ScheduleTypesStep, ReadTypesStep, ScheduleInvariant, PTL
     DEF ScheduleSpec
=============================================================================
