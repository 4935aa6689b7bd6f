------------------------- MODULE StockGrabber_proofs -------------------------
(***************************************************************************)
(* Proofs about StockGrabber, for any sessions, prices, limits and bounds. *)
(***************************************************************************)
EXTENDS StockGrabber, FiniteSetTheorems, TLAPS

\* Where a session counts, what it may have on the wire, and the price it buys at.
Local(s) ==
  /\ pc[s] \in {"idle", "login", "gate"} => count[s] = 0
  /\ pc[s] \in {"scan", "read", "order"} => count[s] < MaxOrders
  /\ pc[s] \notin {"order", "done"} \/ (pc[s] = "done" /\ s \notin stopped) => wire[s] = "none"
  /\ lost[s] <= faults
  /\ pc[s] \in {"read", "order"} \/ wire[s] = "sent" => quote[s] \in Prices /\ Change[quote[s]] < StopAt

\* Of two sessions that are under way one met the other.
Apart ==
  \A s, t \in Sessions :
    s # t /\ pc[s] \notin {"idle", "done"} /\ pc[t] \notin {"idle", "done"} => s \in crowded \/ t \in crowded

Bounded == TypeOK /\ \A s \in Sessions : Local(s)

\* The bounds are numbers.
LEMMA Bounds == MaxOrders \in Nat /\ MaxOrders > 0 /\ MaxFaults \in Nat /\ MaxMoves \in Nat /\ Attempts \in Nat /\ Attempts > 0
BY GrabberConstants

\* Nothing is bought at first.
LEMMA BoundedInit == Init => Bounded /\ Apart
<1> SUFFICES ASSUME Init PROVE Bounded /\ Apart
  OBVIOUS
<1> USE GrabberConstants
<1>1. TypeOK
  <2>1. book \in Seq([by : Sessions, ltp : Prices, price : Nat, qty : {"order_quantity", "final_order_quantity"}])
    BY DEF Init
  <2>2. open \subseteq DOMAIN book
    BY DEF Init
  <2>3. market \in [ltp : Prices, heavy : BOOLEAN]
    BY DEF Init
  <2>4. QED
    BY <2>1, <2>2, <2>3 DEF Init, TypeOK
<1>2. QED
  BY <1>1 DEF Init, Bounded, Apart, Local

\* The price of an order is not below the last price, and not above the highest of the day.
LEMMA TargetsWithinDay ==
  ASSUME NEW ltp \in Prices, Change[ltp] < StopAt, NEW price \in Targets(ltp)
  PROVE  price \in Nat /\ ltp <= price /\ price * (10000 + Change[ltp]) <= 11500 * ltp
<1> DEFINE c == Change[ltp]
           d == 10000 + c
           limit == (11500 * ltp) \div d
<1>1. ltp \in Nat /\ ltp > 0 /\ c \in Int /\ d \in Int /\ d > 0 /\ c < 1500
  BY GrabberConstants DEF StopAt, Limit
<1>2. CASE c <= 784
  <2>1. price = (103 * ltp) \div 100
    BY <1>2 DEF Targets
  <2>2. price \in Nat /\ ltp <= price /\ 100 * price <= 103 * ltp
    BY <1>1, <2>1
  <2>3. d <= 10784
    BY <1>1, <1>2
  <2>4. price * d <= price * 10784
    BY <1>1, <2>2, <2>3
  <2>5. price * 10784 <= 11500 * ltp
    BY <1>1, <2>2
  <2>6. QED
    BY <1>1, <2>2, <2>4, <2>5
<1>3. CASE ~(c <= 784)
  <2>1. limit \in Int /\ limit * d <= 11500 * ltp /\ 11500 * ltp < (limit + 1) * d
    BY <1>1, <1>3
  <2>2. ltp * d < 11500 * ltp
    BY <1>1
  <2>3. ltp <= limit
    <3>1. SUFFICES ASSUME limit + 1 <= ltp PROVE FALSE
      BY <1>1, <2>1
    <3>2. (limit + 1) * d <= ltp * d
      BY <1>1, <2>1, <3>1
    <3>3. QED
      BY <1>1, <2>1, <2>2, <3>2
  <2>4. CASE price = limit
    BY <1>1, <2>1, <2>3, <2>4
  <2>5. CASE Whole(ltp) /\ price = limit - 1
    <3>1. limit * d = 11500 * ltp
      BY <2>5 DEF Whole, DayLimit
    <3>2. limit # ltp
      BY <1>1, <2>2, <3>1
    <3>3. price * d = limit * d - d
      BY <1>1, <2>1, <2>5
    <3>4. QED
      BY <1>1, <2>1, <2>3, <2>5, <3>2, <3>3
  <2>6. QED
    BY <1>3, <2>4, <2>5 DEF Targets, DayLimit
<1>4. QED
  BY <1>2, <1>3

\* Every step keeps the types.
LEMMA TypeStep == Bounded /\ [Next]_vars => TypeOK'
<1> SUFFICES ASSUME Bounded, [Next]_vars PROVE TypeOK'
  OBVIOUS
<1> DEFINE TaskType == /\ pc \in [Sessions -> {"idle", "login", "gate", "scan", "read", "order", "replace", "done"}]
                       /\ stopped \subseteq Sessions /\ forgotten \subseteq Sessions /\ crowded \subseteq Sessions
           LocalsType == /\ count \in [Sessions -> 0..MaxOrders] /\ prev \in [Sessions -> Prices \cup {0}]
                         /\ quote \in [Sessions -> Prices \cup {0}] /\ ids \in [Sessions -> SUBSET Nat]
           BrokerType == /\ wire \in [Sessions -> {"none", "sent", "accepted", "refused"}] /\ tries \in [Sessions -> 1..Attempts]
                         /\ book \in Seq([by : Sessions, ltp : Prices, price : Nat, qty : {"order_quantity", "final_order_quantity"}])
                         /\ open \subseteq DOMAIN book
           RestType == /\ market \in [ltp : Prices, heavy : BOOLEAN]
                       /\ moves \in 0..MaxMoves /\ faults \in 0..MaxFaults /\ lost \in [Sessions -> 0..MaxFaults]
<1>t. ASSUME UNCHANGED task PROVE TaskType'
  BY <1>t DEF task, Bounded, TypeOK
<1>l. ASSUME UNCHANGED <<count, prev, quote, ids>> PROVE LocalsType'
  BY <1>l DEF Bounded, TypeOK
<1>b. ASSUME UNCHANGED broker PROVE BrokerType'
  BY <1>b DEF broker, Bounded, TypeOK
<1>r. ASSUME UNCHANGED <<market, moves, faults, lost>> PROVE RestType'
  BY <1>r DEF Bounded, TypeOK
<1>q. ASSUME TaskType', LocalsType', BrokerType', RestType' PROVE TypeOK'
  BY <1>q DEF TypeOK
<1> HIDE DEF TaskType, LocalsType, BrokerType, RestType
<1>1. CASE UNCHANGED vars
  BY <1>1, <1>t, <1>l, <1>b, <1>r, <1>q DEF vars, task, broker
<1>2. ASSUME NEW s \in Sessions, Start(s) \/ LoggedIn(s) PROVE TypeOK'
  <2>1. TaskType'
    BY <1>2 DEF Start, LoggedIn, Goto, TaskType, Bounded, TypeOK
  <2>2. UNCHANGED <<count, prev, quote, ids, broker, market, moves, faults, lost>>
    BY <1>2 DEF Start, LoggedIn
  <2>3. QED
    BY <2>1, <2>2, <1>l, <1>b, <1>r, <1>q
<1>3. ASSUME NEW s \in Sessions, Cancelled(s) \/ Swallowed(s) PROVE TypeOK'
  <2>1. TaskType'
    BY <1>3 DEF Cancelled, Swallowed, Goto, TaskType, Bounded, TypeOK
  <2>4. LocalsType'
    <3>1. CASE Cancelled(s)
      BY <3>1, GrabberConstants DEF Cancelled, LocalsType, Bounded, TypeOK
    <3>2. CASE Swallowed(s)
      BY <3>2, <1>l DEF Swallowed
    <3>3. QED
      BY <1>3, <3>1, <3>2
  <2>2. UNCHANGED <<broker, market, moves, faults, lost>>
    BY <1>3 DEF Cancelled, Swallowed
  <2>3. QED
    BY <2>1, <2>2, <2>4, <1>b, <1>r, <1>q
<1>4. ASSUME NEW s \in Sessions, NEW baseline \in BOOLEAN, Begin(s, baseline) PROVE TypeOK'
  <2>1. TaskType' /\ LocalsType'
    <3>1. TaskType'
      BY <1>4 DEF Begin, Goto, TaskType, Bounded, TypeOK
    <3>2. PICK p \in Prices \cup {0} : prev' = [prev EXCEPT ![s] = p]
      <4>1. Resume[s] \in Prices \cup {0} /\ market.ltp \in Prices
        BY GrabberConstants DEF Bounded, TypeOK
      <4>2. CASE baseline
        <5> DEFINE known == IF Resume[s] > 0 THEN Resume[s] ELSE market.ltp
        <5>1. prev' = [prev EXCEPT ![s] = known] /\ known \in Prices \cup {0}
          BY <1>4, <4>1, <4>2 DEF Begin
        <5>2. QED
          BY <5>1
      <4>3. CASE ~baseline
        BY <1>4, <4>3 DEF Begin
      <4>4. QED
        BY <4>2, <4>3
    <3>3. LocalsType'
      BY <1>4, <3>2, GrabberConstants DEF Begin, LocalsType, Bounded, TypeOK
    <3>4. QED
      BY <3>1, <3>3
  <2>2. UNCHANGED <<broker, market, moves, lost>>
    BY <1>4 DEF Begin
  <2>3. faults' \in 0..MaxFaults
    BY <1>4, GrabberConstants DEF Begin, Bounded, TypeOK
  <2>4. QED
    BY <2>1, <2>2, <2>3, <1>b, <1>q DEF RestType, Bounded, TypeOK
<1>5. ASSUME NEW s \in Sessions, NotLive(s) \/ Rise(s) PROVE TypeOK'
  <2>1. TaskType'
    BY <1>5 DEF NotLive, AfterScan, Rise, Goto, TaskType, Bounded, TypeOK
  <2>2. LocalsType'
    BY <1>5 DEF NotLive, Rise, LocalsType, Bounded, TypeOK
  <2>3. UNCHANGED <<broker, market, moves, faults, lost>>
    BY <1>5 DEF NotLive, Rise
  <2>4. QED
    BY <2>1, <2>2, <2>3, <1>b, <1>r, <1>q
<1>6. ASSUME NEW s \in Sessions, NEW known \in BOOLEAN, Read(s, known) PROVE TypeOK'
  <2>1. TaskType'
    BY <1>6 DEF Read, Goto, TaskType, Bounded, TypeOK
  <2>2. open \in SUBSET Nat
    BY DEF Bounded, TypeOK
  <2>3. LocalsType'
    BY <1>6, <2>2 DEF Read, OpenIds, LocalsType, Bounded, TypeOK
  <2>4. BrokerType'
    BY <1>6, GrabberConstants DEF Read, BrokerType, Bounded, TypeOK
  <2>5. RestType'
    BY <1>6, GrabberConstants DEF Read, RestType, Bounded, TypeOK
  <2>6. QED
    BY <2>1, <2>3, <2>4, <2>5, <1>q
<1>7. ASSUME NEW s \in Sessions, Accept(s) PROVE TypeOK'
  <2>p. PICK price \in Targets(quote[s]) :
          book' = Append(book, [by |-> s, ltp |-> quote[s], price |-> price, qty |-> Quantity(quote[s])])
    BY <1>7 DEF Accept
  <2> DEFINE order == [by |-> s, ltp |-> quote[s], price |-> price, qty |-> Quantity(quote[s])]
             Order == [by : Sessions, ltp : Prices, price : Nat, qty : {"order_quantity", "final_order_quantity"}]
  <2>1. quote[s] \in Prices /\ Change[quote[s]] < StopAt
    BY <1>7 DEF Accept, Bounded, Local
  <2>2. Quantity(quote[s]) \in {"order_quantity", "final_order_quantity"}
    BY DEF Quantity
  <2>3. order \in Order
    BY <2>1, <2>2, TargetsWithinDay
  <2>4. book' = Append(book, order) /\ book \in Seq(Order) /\ open' = open \cup {Len(book) + 1}
    BY <1>7, <2>p DEF Accept, Bounded, TypeOK
  <2> HIDE DEF order, Order
  <2>5. book' \in Seq(Order) /\ DOMAIN book' = 1..Len(book) + 1 /\ DOMAIN book = 1..Len(book) /\ Len(book) \in Nat
    BY <2>3, <2>4
  <2>6. open' \subseteq DOMAIN book'
    BY <2>4, <2>5 DEF Bounded, TypeOK
  <2>7. wire' \in [Sessions -> {"none", "sent", "accepted", "refused"}]
    BY <1>7 DEF Accept, Bounded, TypeOK
  <2>8. BrokerType'
    BY <1>7, <2>5, <2>6, <2>7 DEF Accept, BrokerType, Order, Bounded, TypeOK
  <2>9. UNCHANGED <<task, count, prev, quote, ids, market, moves, faults, lost>>
    BY <1>7 DEF Accept
  <2>10. QED
    BY <2>8, <2>9, <1>t, <1>l, <1>r, <1>q
<1>8. ASSUME NEW s \in Sessions, Refuse(s) PROVE TypeOK'
  <2>1. BrokerType'
    BY <1>8 DEF Refuse, BrokerType, Bounded, TypeOK
  <2>2. UNCHANGED <<task, count, prev, quote, ids, market, moves, faults, lost>>
    BY <1>8 DEF Refuse
  <2>3. QED
    BY <2>1, <2>2, <1>t, <1>l, <1>r, <1>q
<1>15. ASSUME NEW s \in Sessions, Repost(s) PROVE TypeOK'
  <2>1. BrokerType'
    <3>1. tries[s] \in 1..Attempts /\ tries[s] < Attempts /\ Attempts \in Nat
      BY <1>15, GrabberConstants DEF Repost, Bounded, TypeOK
    <3>2. tries[s] + 1 \in 1..Attempts
      BY <3>1
    <3>3. QED
      BY <1>15, <3>2 DEF Repost, BrokerType, Bounded, TypeOK
  <2>2. RestType'
    <3>1. faults' \in 0..MaxFaults /\ lost[s] + 1 \in 0..MaxFaults
      BY <1>15, GrabberConstants DEF Repost, Bounded, TypeOK, Local
    <3>2. QED
      BY <1>15, <3>1 DEF Repost, RestType, Bounded, TypeOK
  <2>3. UNCHANGED <<task, count, prev, quote, ids>>
    BY <1>15 DEF Repost
  <2>4. QED
    BY <2>1, <2>2, <2>3, <1>t, <1>l, <1>q
<1>9. ASSUME NEW s \in Sessions, Placed(s) \/ Refused(s) \/ Uncounted(s) PROVE TypeOK'
  <2>1. TaskType'
    BY <1>9 DEF Placed, Refused, Uncounted, Goto, TaskType, Bounded, TypeOK
  <2>2. BrokerType'
    BY <1>9 DEF Placed, Refused, Uncounted, BrokerType, Bounded, TypeOK
  <2>3. LocalsType'
    <3>1. CASE Placed(s)
      BY <3>1, GrabberConstants DEF Placed, At, Local, LocalsType, Bounded, TypeOK
    <3>2. CASE Refused(s) \/ Uncounted(s)
      BY <3>2 DEF Refused, Uncounted, PrevAfter, LocalsType, Bounded, TypeOK
    <3>3. QED
      BY <1>9, <3>1, <3>2
  <2>4. RestType'
    <3>1. CASE Placed(s) \/ Refused(s)
      BY <3>1, <1>r DEF Placed, Refused
    <3>2. CASE Uncounted(s)
      <4>1. faults' \in 0..MaxFaults /\ lost[s] + 1 \in 0..MaxFaults
        BY <3>2, GrabberConstants DEF Uncounted, Bounded, TypeOK, Local
      <4>2. QED
        BY <3>2, <4>1 DEF Uncounted, RestType, Bounded, TypeOK
    <3>3. QED
      BY <1>9, <3>1, <3>2
  <2>5. QED
    BY <2>1, <2>2, <2>3, <2>4, <1>q
<1>10. ASSUME NEW s \in Sessions, NEW kept \in SUBSET ids[s], Replace(s, kept) PROVE TypeOK'
  <2>1. TaskType'
    BY <1>10 DEF Replace, Goto, TaskType, Bounded, TypeOK
  <2>2. LocalsType'
    BY <1>10 DEF Replace, PrevAfter, LocalsType, Bounded, TypeOK
  <2>3. BrokerType'
    BY <1>10 DEF Replace, BrokerType, Bounded, TypeOK
  <2>4. RestType'
    <3>1. faults' \in 0..MaxFaults
      <4>1. faults \in 0..MaxFaults
        BY DEF Bounded, TypeOK
      <4>2. faults' = faults \/ (faults < MaxFaults /\ faults' = faults + 1)
        BY <1>10 DEF Replace
      <4>3. QED
        BY <4>1, <4>2, Bounds
    <3>2. QED
      BY <1>10, <3>1 DEF Replace, RestType, Bounded, TypeOK
  <2>5. QED
    BY <2>1, <2>2, <2>3, <2>4, <1>q
<1>11. ASSUME NEW S \in SUBSET Sessions, Stop(S) PROVE TypeOK'
  <2>1. TaskType' /\ UNCHANGED <<count, prev, quote, ids, broker, market, moves, faults, lost>>
    BY <1>11 DEF Stop, TaskType, Bounded, TypeOK
  <2>2. QED
    BY <2>1, <1>l, <1>b, <1>r, <1>q
<1>12. ASSUME NEW ltp \in Prices, NEW heavy \in BOOLEAN, Move(ltp, heavy) PROVE TypeOK'
  <2>1. RestType' /\ UNCHANGED <<task, count, prev, quote, ids, broker>>
    BY <1>12, GrabberConstants DEF Move, RestType, Bounded, TypeOK
  <2>2. QED
    BY <2>1, <1>t, <1>l, <1>b, <1>q
<1>13. ASSUME NEW i \in open, Fill(i) PROVE TypeOK'
  <2>1. RestType' /\ UNCHANGED <<task, count, prev, quote, ids>>
    BY <1>13, GrabberConstants DEF Fill, RestType, Bounded, TypeOK
  <2>2. BrokerType'
    BY <1>13 DEF Fill, BrokerType, Bounded, TypeOK
  <2>3. QED
    BY <2>1, <2>2, <1>t, <1>l, <1>q
<1>14. QED
  BY <1>1, <1>2, <1>3, <1>4, <1>5, <1>6, <1>7, <1>8, <1>9, <1>10, <1>11, <1>12, <1>13, <1>15 DEF Next
\* A price that does not reach the stop is below it.
LEMMA BelowStop ==
  ASSUME NEW ltp \in Prices, ~StopReached(ltp)
  PROVE  Change[ltp] < StopAt
<1>1. Change[ltp] \in Int /\ StopAt \in Int
  BY GrabberConstants DEF StopAt, Limit
<1>2. QED
  BY <1>1 DEF StopReached

\* Every step keeps a session's count below the limit until it may reach it.
LEMMA LocalStep ==
  ASSUME Bounded, [Next]_vars, NEW t \in Sessions
  PROVE  Local(t)'
<1> USE Bounds DEF Bounded, TypeOK, Local, Goto, task, broker
<1>1. CASE UNCHANGED vars
  BY <1>1 DEF vars
<1>2. ASSUME NEW s \in Sessions, Start(s) \/ LoggedIn(s) \/ Cancelled(s) \/ Swallowed(s) PROVE Local(t)'
  BY <1>2 DEF Start, LoggedIn, Cancelled, Swallowed, Active
<1>3. ASSUME NEW s \in Sessions, NEW baseline \in BOOLEAN, Begin(s, baseline) PROVE Local(t)'
  BY <1>3 DEF Begin, At
<1>4. ASSUME NEW s \in Sessions, NotLive(s) PROVE Local(t)'
  BY <1>4 DEF NotLive, AfterScan, At
<1>5. ASSUME NEW s \in Sessions, Rise(s) PROVE Local(t)'
  <2>1. CASE s # t
    BY <1>5, <2>1 DEF Rise
  <2>2. CASE s = t
    <3>1. /\ pc'[t] = IF market.heavy \/ StopReached(market.ltp) THEN "done" ELSE "read"
          /\ quote'[t] = market.ltp /\ market.ltp \in Prices /\ UNCHANGED <<count, wire, lost, faults>>
          /\ wire[t] = "none" /\ count[t] < MaxOrders
      BY <1>5, <2>2 DEF Rise, At
    <3>2. ~StopReached(market.ltp) => Change[market.ltp] < StopAt
      <4> HIDE DEF Bounded, TypeOK, Local, Goto, task, broker
      <4>1. QED
        BY <3>1, BelowStop
    <3>3. lost'[t] <= faults'
      BY <3>1
    <3>4. QED
      BY <3>1, <3>2, <3>3
  <2>3. QED
    BY <2>1, <2>2
<1>6. ASSUME NEW s \in Sessions, NEW known \in BOOLEAN, Read(s, known) PROVE Local(t)'
  BY <1>6 DEF Read, At
<1>7. ASSUME NEW s \in Sessions, Accept(s) \/ Refuse(s) PROVE Local(t)'
  BY <1>7 DEF Accept, Refuse
<1>8. ASSUME NEW s \in Sessions, Placed(s) \/ Refused(s) PROVE Local(t)'
  BY <1>8 DEF Placed, Refused, At
<1>9. ASSUME NEW s \in Sessions, Uncounted(s) PROVE Local(t)'
  BY <1>9 DEF Uncounted, At
<1>13. ASSUME NEW s \in Sessions, Repost(s) PROVE Local(t)'
  <2>1. CASE s # t
    BY <1>13, <2>1 DEF Repost
  <2>2. CASE s = t
    <3>1. UNCHANGED <<pc, count, quote, stopped>> /\ pc[t] = "order" /\ wire'[t] = "sent"
      BY <1>13, <2>2 DEF Repost, At
    <3>2. lost'[t] \in {lost[t], lost[t] + 1} /\ faults' = faults + 1 /\ lost[t] \in Nat /\ faults \in Nat
      BY <1>13, <2>2 DEF Repost
    <3>3. quote[t] \in Prices /\ Change[quote[t]] < StopAt
      BY <3>1
    <3>4. QED
      BY <3>1, <3>2, <3>3
  <2>3. QED
    BY <2>1, <2>2
<1>10. ASSUME NEW s \in Sessions, NEW kept \in SUBSET ids[s], Replace(s, kept) PROVE Local(t)'
  <2>1. UNCHANGED <<stopped, count, quote, wire, lost>>
    BY <1>10 DEF Replace
  <2>2. /\ pc[s] = "replace" /\ wire[s] = "none" /\ pc' = [pc EXCEPT ![s] = IF count[s] >= MaxOrders THEN "done" ELSE "scan"]
        /\ count[s] \in 0..MaxOrders
    BY <1>10 DEF Replace, At
  <2>3. lost'[t] <= faults'
    <3>1. lost[t] <= faults /\ lost[t] \in Nat /\ faults \in Nat /\ (faults' = faults \/ faults' = faults + 1)
      BY <1>10 DEF Replace
    <3>2. QED
      BY <2>1, <3>1
  <2>4. CASE s # t
    BY <2>1, <2>2, <2>3, <2>4
  <2>5. CASE s = t
    BY <2>1, <2>2, <2>3, <2>5
  <2>6. QED
    BY <2>4, <2>5
<1>11. ASSUME (\E S \in SUBSET Sessions : Stop(S)) \/ (\E ltp \in Prices, heavy \in BOOLEAN : Move(ltp, heavy)) \/ (\E i \in open : Fill(i))
       PROVE  Local(t)'
  BY <1>11 DEF Stop, Move, Fill
<1> HIDE DEF Bounded, TypeOK, Local, Goto, task, broker
<1>14. CASE Next
  BY <1>1, <1>2, <1>3, <1>4, <1>5, <1>6, <1>7, <1>8, <1>9, <1>10, <1>11, <1>13, Zenon DEF Next
<1>15. QED
  BY <1>1, <1>14

\* A session starts only if whoever is under way is logging in or was stopped, and remembers it.
LEMMA ApartStep == Bounded /\ Apart /\ [Next]_vars => Apart'
<1> SUFFICES ASSUME Bounded, Apart, [Next]_vars,
                    NEW s \in Sessions, NEW t \in Sessions, s # t,
                    pc'[s] \notin {"idle", "done"}, pc'[t] \notin {"idle", "done"}
             PROVE  s \in crowded' \/ t \in crowded'
  BY DEF Apart
<1> DEFINE Before == pc[s] \notin {"idle", "done"} /\ pc[t] \notin {"idle", "done"}
<1>1. ASSUME NEW u \in Sessions, Start(u) PROVE s \in crowded' \/ t \in crowded'
  <2>1. CASE Before
    BY <1>1, <2>1 DEF Start, Apart
  <2>2. CASE u \in {s, t} /\ ~Before
    <3>1. PICK v \in {s, t} : v # u /\ pc[v] \notin {"idle", "done"}
      BY <1>1, <2>2 DEF Start, Goto, Bounded, TypeOK
    <3>2. v \notin Running
      BY <1>1 DEF Start, MayStart
    <3>3. pc[v] = "login" \/ (v \in forgotten /\ Active(v))
      BY <3>1, <3>2 DEF Running, Active
    <3>4. QED
      BY <1>1, <2>2, <3>3 DEF Start
  <2>3. CASE u \notin {s, t} /\ ~Before
    BY <1>1, <2>3 DEF Start, Goto, Bounded, TypeOK
  <2>4. QED
    BY <2>1, <2>2, <2>3
<1>2. CASE ~\E u \in Sessions : Start(u)
  <2>1. crowded' = crowded
    BY <1>2
    DEF Next, vars, task, LoggedIn, Cancelled, Swallowed, Begin, NotLive, Rise, Read, Accept, Refuse, Repost, Placed,
        Refused, Uncounted, Replace, Stop, Move, Fill
  <2>2. ASSUME NEW u \in Sessions, pc'[u] \notin {"idle", "done"} PROVE pc[u] \notin {"idle", "done"}
    <3>1. CASE pc' = pc
      BY <2>2, <3>1
    <3>2. ASSUME NEW v \in Sessions, NEW at, Goto(v, at), pc[v] \notin {"idle", "done"} PROVE pc[u] \notin {"idle", "done"}
      BY <2>2, <3>2 DEF Goto, Bounded, TypeOK
    <3>3. ASSUME NEW v \in Sessions, LoggedIn(v) \/ Cancelled(v) \/ NotLive(v) \/ Rise(v) \/ Placed(v) \/ Refused(v) \/ Uncounted(v)
          PROVE  pc[u] \notin {"idle", "done"}
      BY <3>2, <3>3 DEF LoggedIn, Cancelled, Active, NotLive, Rise, Placed, Refused, Uncounted, At
    <3>4. ASSUME NEW v \in Sessions, NEW flag \in BOOLEAN, Begin(v, flag) \/ Read(v, flag)
          PROVE  pc[u] \notin {"idle", "done"}
      BY <3>2, <3>4 DEF Begin, Read, At
    <3>5. ASSUME NEW v \in Sessions, NEW kept \in SUBSET ids[v], Replace(v, kept)
          PROVE  pc[u] \notin {"idle", "done"}
      BY <3>2, <3>5 DEF Replace, At
    <3>6. CASE UNCHANGED vars \/ (\E v \in Sessions : Accept(v) \/ Refuse(v) \/ Repost(v) \/ Swallowed(v)) \/ (\E S \in SUBSET Sessions : Stop(S))
               \/ (\E ltp \in Prices, heavy \in BOOLEAN : Move(ltp, heavy)) \/ (\E i \in open : Fill(i))
      BY <3>1, <3>6 DEF vars, Accept, Refuse, Repost, Swallowed, Stop, Move, Fill, task
    <3>7. QED
      BY <1>2, <3>3, <3>4, <3>5, <3>6 DEF Next
  <2>3. QED
    BY <2>1, <2>2 DEF Apart
<1>3. QED
  BY <1>1, <1>2

\* The types and limits, for any sessions, prices and bounds.
THEOREM BoundedEver == Spec => [](Bounded /\ Apart)
<1>1. Bounded /\ Apart /\ [Next]_vars => (Bounded /\ Apart)'
  BY TypeStep, LocalStep, ApartStep DEF Bounded
<1>2. QED
  BY <1>1, BoundedInit, PTL DEF Spec

\* Every variable keeps its type; no grabber counts more orders than its limit.
THEOREM TypeCorrect == Spec => []TypeOK
<1>1. Bounded /\ Apart => TypeOK
  BY DEF Bounded
<1>2. QED
  BY <1>1, BoundedEver, PTL

\* However many requests there are: two grabbers of one stock are active together only if one
\* was started while another was logging in, or before a stopped one had ended.
THEOREM CrowdedOnly == Spec => []OneUnlessCrowded
<1>1. Bounded /\ Apart => OneUnlessCrowded
  BY DEF Apart, OneUnlessCrowded, Active
<1>2. QED
  BY <1>1, BoundedEver, PTL
-----------------------------------------------------------------------------
(* What the broker accepted.                                               *)

\* What a session has ordered is what it counted, what it could not count and what it is about
\* to count; once it is over only what may still be accepted is missing from the limit.
Tally(s) ==
  /\ pc[s] # "done" =>
       Cardinality(Orders(s)) = count[s] + lost[s] + (IF wire[s] = "accepted" THEN 1 ELSE 0)
  /\ pc[s] = "done" =>
       Cardinality(Orders(s)) + (IF wire[s] = "sent" THEN 1 ELSE 0) <= MaxOrders + lost[s]

AtMostOne(S) == \A i, j \in S : i = j
OpenOf(s) == Orders(s) \cap open

\* A session without errors has at most one order open, or is replacing all others.
Replaces(s) ==
  faults = 0 /\ (s \in stopped => pc[s] # "done") =>
    IF wire[s] = "accepted" \/ pc[s] = "replace" THEN AtMostOne(OpenOf(s) \ ids[s])
    ELSE AtMostOne(OpenOf(s)) /\ (pc[s] = "order" => OpenOf(s) \subseteq ids[s])

\* A session's orders are finitely many.
LEMMA OrdersFinite ==
  ASSUME TypeOK, NEW s \in Sessions
  PROVE  IsFiniteSet(Orders(s)) /\ Orders(s) \subseteq 1..Len(book) /\ Cardinality(Orders(s)) \in Nat
<1>1. Orders(s) \subseteq 1..Len(book) /\ Len(book) \in Int
  BY DEF TypeOK, Orders
<1>2. IsFiniteSet(1..Len(book))
  BY <1>1, FS_Interval
<1>3. IsFiniteSet(Orders(s))
  BY <1>1, <1>2, FS_Subset
<1>4. QED
  BY <1>1, <1>3, FS_CardinalityType

\* The broker accepts the order of one session.
LEMMA AcceptAdds ==
  ASSUME TypeOK, NEW s \in Sessions, Accept(s), NEW t \in Sessions
  PROVE  /\ Len(book) + 1 \notin Orders(s) /\ Len(book) + 1 \notin open
         /\ Orders(t)' = IF t = s THEN Orders(s) \cup {Len(book) + 1} ELSE Orders(t)
<1>1. /\ DOMAIN book = 1..Len(book) /\ Len(book) \in Nat /\ DOMAIN book' = 1..Len(book) + 1
      /\ \A i \in 1..Len(book) : book'[i] = book[i]
      /\ book'[Len(book) + 1].by = s
  BY DEF Accept, TypeOK
<1>2. Len(book) + 1 \notin DOMAIN book
  BY <1>1
<1>3. Len(book) + 1 \notin Orders(s) /\ Len(book) + 1 \notin open
  BY <1>2 DEF Orders, TypeOK
<1>4. \A i : i \in Orders(t)' <=> i \in Orders(t) \/ (t = s /\ i = Len(book) + 1)
  BY <1>1 DEF Orders
<1>5. QED
  BY <1>3, <1>4

\* Every step keeps the tally.
LEMMA TallyStep ==
  ASSUME Bounded, \A u \in Sessions : Tally(u), [Next]_vars, NEW t \in Sessions
  PROVE  Tally(t)'
<1>1. ASSUME NEW s \in Sessions, Accept(s) PROVE Tally(t)'
  <2>1. TypeOK /\ UNCHANGED <<pc, count, lost>> /\ wire' = [wire EXCEPT ![s] = "accepted"] /\ wire[s] = "sent"
    BY <1>1 DEF Accept, task, Bounded
  <2>2. CASE t = s
    <3>1. Orders(t)' = Orders(t) \cup {Len(book) + 1} /\ Len(book) + 1 \notin Orders(t)
      BY <1>1, <2>1, <2>2, AcceptAdds
    <3>2. Cardinality(Orders(t))' = Cardinality(Orders(t)) + 1
      BY <2>1, <3>1, OrdersFinite, FS_AddElement
    <3>3. wire'[t] = "accepted" /\ wire[t] = "sent" /\ count[t] \in Nat /\ lost[t] \in Nat /\ Cardinality(Orders(t)) \in Nat
      BY <2>1, <2>2, OrdersFinite DEF TypeOK
    <3>4. QED
      BY <2>1, <3>2, <3>3, GrabberConstants DEF Tally
  <2>3. CASE t # s
    <3>1. Orders(t)' = Orders(t) /\ wire'[t] = wire[t]
      BY <1>1, <2>1, <2>3, AcceptAdds DEF TypeOK
    <3>2. QED
      BY <2>1, <3>1 DEF Tally
  <2>4. QED
    BY <2>2, <2>3
<1>2. ASSUME UNCHANGED book PROVE Orders(t)' = Orders(t)
  BY <1>2 DEF Orders
<1>3. ASSUME UNCHANGED <<book, pc, count, lost, wire>> PROVE Tally(t)'
  BY <1>2, <1>3 DEF Tally
<1>4. /\ count[t] \in 0..MaxOrders /\ lost[t] \in Nat /\ Cardinality(Orders(t)) \in Nat
      /\ MaxOrders \in Nat /\ Local(t) /\ Tally(t)
  BY OrdersFinite, GrabberConstants DEF Bounded, TypeOK
<1>5. ASSUME UNCHANGED book, NEW s \in Sessions,
             pc'[t] = pc[t] /\ count'[t] = count[t] /\ lost'[t] = lost[t] /\ wire'[t] = wire[t]
      PROVE  Tally(t)'
  BY <1>2, <1>5 DEF Tally
<1> USE DEF Goto, At
<1>6. ASSUME NEW s \in Sessions,
             \/ Start(s) \/ LoggedIn(s) \/ Cancelled(s) \/ Swallowed(s) \/ NotLive(s) \/ Rise(s) \/ Refuse(s)
             \/ Repost(s) \/ Placed(s) \/ Refused(s) \/ Uncounted(s)
             \/ (\E flag \in BOOLEAN : Begin(s, flag) \/ Read(s, flag))
             \/ (\E kept \in SUBSET ids[s] : Replace(s, kept))
      PROVE  Tally(t)'
  <2>1. UNCHANGED book
    BY <1>6 DEF Start, LoggedIn, Cancelled, Swallowed, NotLive, Rise, Refuse, Repost, Placed, Refused, Uncounted, Begin, Read, Replace, broker
  <2>2. Cardinality(Orders(t))' = Cardinality(Orders(t))
    BY <2>1, <1>2
  <2>3. CASE t # s
    <3>1. pc'[t] = pc[t] /\ count'[t] = count[t] /\ lost'[t] = lost[t] /\ wire'[t] = wire[t]
      BY <1>6, <2>3
      DEF Start, LoggedIn, Cancelled, Swallowed, NotLive, Rise, Refuse, Repost, Placed, Refused, Uncounted, Begin, Read, Replace,
          broker, task, Bounded, TypeOK
    <3>2. QED
      BY <1>5, <2>1, <3>1
  <2>4. CASE t = s
    <3> USE <2>4, <2>2, <1>4 DEF Tally, Local, Bounded, TypeOK, broker, task
    <3>1. CASE Start(s) \/ LoggedIn(s)
      BY <3>1 DEF Start, LoggedIn
    <3>2. CASE Cancelled(s) \/ Swallowed(s)
      BY <3>2 DEF Cancelled, Swallowed, Active
    <3>3. CASE NotLive(s) \/ Rise(s)
      BY <3>3 DEF NotLive, AfterScan, Rise
    <3>4. CASE Refuse(s)
      BY <3>4 DEF Refuse
    <3>5. CASE Placed(s)
      BY <3>5 DEF Placed
    <3>6. CASE Refused(s)
      BY <3>6 DEF Refused
    <3>7. CASE Uncounted(s)
      BY <3>7 DEF Uncounted
    <3>12. CASE Repost(s)
      BY <3>12 DEF Repost
    <3>8. CASE \E flag \in BOOLEAN : Begin(s, flag)
      BY <3>8 DEF Begin
    <3>9. CASE \E flag \in BOOLEAN : Read(s, flag)
      BY <3>9 DEF Read
    <3>10. CASE \E kept \in SUBSET ids[s] : Replace(s, kept)
      BY <3>10 DEF Replace
    <3> HIDE DEF Tally, Local, Bounded, TypeOK, broker, task
    <3>11. QED
      BY <1>6, <3>1, <3>2, <3>3, <3>4, <3>5, <3>6, <3>7, <3>8, <3>9, <3>10, <3>12
  <2>5. QED
    BY <2>3, <2>4
<1>7. CASE \/ UNCHANGED vars \/ (\E S \in SUBSET Sessions : Stop(S))
           \/ (\E ltp \in Prices, heavy \in BOOLEAN : Move(ltp, heavy)) \/ (\E i \in open : Fill(i))
  BY <1>3, <1>7 DEF vars, Stop, Move, Fill, task, broker
<1>8. QED
  BY <1>1, <1>6, <1>7 DEF Next
\* Nothing is ordered at first.
LEMMA TallyInit ==
  Init => \A s \in Sessions : Tally(s) /\ Replaces(s)
<1> SUFFICES ASSUME Init, NEW s \in Sessions PROVE Tally(s) /\ Replaces(s)
  OBVIOUS
<1>1. book = <<>> /\ pc[s] = "idle" /\ wire[s] = "none" /\ count[s] = 0 /\ lost[s] = 0
  BY DEF Init
<1>2. Orders(s) = {}
  BY <1>1 DEF Orders
<1>3. QED
  BY <1>1, <1>2, FS_EmptySet DEF Tally, Replaces, OpenOf, AtMostOne

\* However many grabbers run, and whatever stops, errors and closings come between: none has
\* more orders accepted than its limit and those it was never told of.
THEOREM LimitEver == Spec => []LimitKept
<1>1. Init => Bounded /\ Apart /\ \A s \in Sessions : Tally(s)
  BY BoundedInit, TallyInit
<1>2. Bounded /\ Apart /\ (\A s \in Sessions : Tally(s)) /\ [Next]_vars
        => (Bounded /\ Apart /\ \A s \in Sessions : Tally(s))'
  BY TypeStep, LocalStep, ApartStep, TallyStep DEF Bounded
<1>3. Bounded /\ Apart /\ (\A s \in Sessions : Tally(s)) => LimitKept
  <2> SUFFICES ASSUME Bounded, NEW s \in Sessions, Tally(s)
               PROVE  Cardinality(Orders(s)) <= MaxOrders + lost[s]
    BY DEF LimitKept
  <2>1. /\ count[s] \in 0..MaxOrders /\ lost[s] \in Nat /\ Cardinality(Orders(s)) \in Nat /\ MaxOrders \in Nat
        /\ wire[s] \in {"none", "sent", "accepted", "refused"}
    BY OrdersFinite, GrabberConstants DEF Bounded, TypeOK
  <2>2. CASE pc[s] = "done"
    BY <2>1, <2>2 DEF Tally
  <2>3. CASE pc[s] # "done"
    <3>1. wire[s] = "accepted" => count[s] < MaxOrders
      BY <2>3 DEF Bounded, Local
    <3>2. QED
      BY <2>1, <2>3, <3>1 DEF Tally
  <2>4. QED
    BY <2>2, <2>3
<1>4. QED
  BY <1>1, <1>2, <1>3, PTL DEF Spec
\* Every step keeps a session at one open order.
LEMMA ReplacesStep ==
  ASSUME Bounded, \A u \in Sessions : Replaces(u), [Next]_vars, NEW t \in Sessions
  PROVE  Replaces(t)'
<1> USE DEF Goto, At
<1>1. Replaces(t) /\ Local(t) /\ TypeOK /\ faults \in Nat
  BY GrabberConstants DEF Bounded, TypeOK
<1>2. ASSUME open' \subseteq open, UNCHANGED book, faults' >= faults, faults' \in Nat,
             t \in stopped => t \in stopped' \/ pc[t] # "done",
             pc'[t] = pc[t], wire'[t] = wire[t], ids'[t] = ids[t]
      PROVE  Replaces(t)'
  BY <1>1, <1>2 DEF Replaces, OpenOf, AtMostOne, Orders
<1>3. ASSUME NEW s \in Sessions, Accept(s) PROVE Replaces(t)'
  <2>1. /\ UNCHANGED <<pc, stopped, faults, ids>> /\ wire' = [wire EXCEPT ![s] = "accepted"]
        /\ wire[s] = "sent" /\ open' = open \cup {Len(book) + 1}
    BY <1>3 DEF Accept, task
  <2>2. /\ Orders(t)' = IF t = s THEN Orders(s) \cup {Len(book) + 1} ELSE Orders(t)
        /\ Orders(t) \subseteq 1..Len(book) /\ Len(book) \in Nat
    <3>1. Orders(t)' = IF t = s THEN Orders(s) \cup {Len(book) + 1} ELSE Orders(t)
      BY <1>1, <1>3, AcceptAdds
    <3>2. Orders(t) \subseteq 1..Len(book) /\ Len(book) \in Nat
      BY <1>1, OrdersFinite DEF TypeOK
    <3>3. QED
      BY <3>1, <3>2
  <2>3. CASE t = s
    <3>1. (s \in stopped => pc[s] # "done") => pc[s] = "order"
      BY <1>1, <2>1, <2>3 DEF Local, TypeOK
    <3>2. OpenOf(t)' = OpenOf(t) \cup {Len(book) + 1}
      BY <2>1, <2>2, <2>3 DEF OpenOf
    <3>3. faults = 0 /\ (s \in stopped => pc[s] # "done") => OpenOf(t) \subseteq ids[t]
      BY <1>1, <2>1, <2>3, <3>1 DEF Replaces
    <3>4. wire'[t] = "accepted"
      BY <1>1, <2>1, <2>3 DEF TypeOK
    <3>5. faults = 0 /\ (s \in stopped => pc[s] # "done") => AtMostOne(OpenOf(t)' \ ids[t])
      BY <3>2, <3>3 DEF AtMostOne
    <3>6. QED
      BY <2>1, <2>3, <3>4, <3>5 DEF Replaces, AtMostOne
  <2>4. CASE t # s
    <3>1. Len(book) + 1 \notin Orders(t)
      BY <2>2
    <3>2. OpenOf(t)' = OpenOf(t) /\ wire'[t] = wire[t]
      BY <1>1, <2>1, <2>2, <2>4, <3>1 DEF OpenOf, TypeOK
    <3>3. QED
      BY <1>1, <2>1, <3>2 DEF Replaces, AtMostOne
  <2>5. QED
    BY <2>3, <2>4
<1>4. ASSUME NEW s \in Sessions,
             \/ Start(s) \/ LoggedIn(s) \/ Cancelled(s) \/ NotLive(s) \/ Rise(s) \/ Refuse(s)
             \/ Repost(s) \/ Placed(s) \/ Refused(s) \/ Uncounted(s)
             \/ (\E flag \in BOOLEAN : Begin(s, flag) \/ Read(s, flag))
             \/ (\E kept \in SUBSET ids[s] : Replace(s, kept))
      PROVE  Replaces(t)'
  <2>1. UNCHANGED book /\ open' \subseteq open
    BY <1>4 DEF Start, LoggedIn, Cancelled, NotLive, Rise, Refuse, Repost, Placed, Refused, Uncounted, Begin, Read, Replace, broker
  <2>2. faults' \in Nat /\ faults' >= faults /\ UNCHANGED stopped
    BY <1>1, <1>4
    DEF Start, LoggedIn, Cancelled, NotLive, Rise, Refuse, Repost, Placed, Refused, Uncounted, Begin, Read, Replace, task
  <2>3. CASE t # s
    <3>1. pc'[t] = pc[t] /\ wire'[t] = wire[t] /\ ids'[t] = ids[t]
      BY <1>1, <1>4, <2>3
      DEF Start, LoggedIn, Cancelled, NotLive, Rise, Refuse, Repost, Placed, Refused, Uncounted, Begin, Read, Replace,
          broker, task, TypeOK
    <3>2. QED
      BY <1>2, <2>1, <2>2, <3>1
  <2>4. CASE t = s
    <3>1. ASSUME UNCHANGED <<book, open, wire, ids>>, pc[t] \notin {"order", "replace"}, pc'[t] \notin {"order", "replace"}, pc[t] # "done" PROVE Replaces(t)'
      <4>1. OpenOf(t)' = OpenOf(t)
        BY <3>1 DEF OpenOf, Orders
      <4>2. QED
        BY <1>1, <2>2, <3>1, <4>1 DEF Replaces, AtMostOne
    <3>2. CASE Start(s) \/ LoggedIn(s) \/ NotLive(s) \/ Rise(s) \/ \E flag \in BOOLEAN : Begin(s, flag)
      BY <1>1, <2>4, <3>1, <3>2 DEF Start, LoggedIn, NotLive, AfterScan, Rise, Begin, broker, TypeOK
    <3>3. CASE Cancelled(s)
      BY <1>1, <2>2, <2>4, <3>3 DEF Cancelled, Replaces, TypeOK
    <3>4. CASE Refuse(s)
      <4>1. OpenOf(t)' = OpenOf(t) /\ pc' = pc /\ ids' = ids /\ wire[t] = "sent" /\ wire'[t] = "refused"
        BY <1>1, <2>4, <3>4 DEF Refuse, OpenOf, Orders, task, TypeOK
      <4>2. QED
        BY <1>1, <2>2, <2>4, <4>1 DEF Replaces, AtMostOne, Local
    <3>5. CASE Placed(s) \/ Refused(s)
      <4>1. OpenOf(t)' = OpenOf(t) /\ ids' = ids /\ wire'[t] = "none" /\ pc[t] = "order"
            /\ IF wire[t] = "accepted" THEN pc'[t] = "replace" ELSE pc'[t] = "scan"
        <5>1. UNCHANGED <<book, open, ids>>
          BY <3>5 DEF Placed, Refused
        <5>2. OpenOf(t)' = OpenOf(t)
          BY <5>1 DEF OpenOf, Orders
        <5>3. DOMAIN pc = Sessions /\ DOMAIN wire = Sessions /\ t \in Sessions
          BY <1>1 DEF TypeOK
        <5>4. pc[t] = "order" /\ wire[t] = IF Placed(s) THEN "accepted" ELSE "refused"
          BY <2>4, <3>5 DEF Placed, Refused
        <5>5. wire'[t] = "none"
          <6>1. wire' = [wire EXCEPT ![t] = "none"]
            BY <2>4, <3>5 DEF Placed, Refused
          <6>2. QED
            BY <5>3, <6>1
        <5>6. pc'[t] = IF Placed(s) THEN "replace" ELSE "scan"
          <6>1. pc' = [pc EXCEPT ![t] = IF Placed(s) THEN "replace" ELSE "scan"]
            BY <2>4, <3>5 DEF Placed, Refused
          <6>2. QED
            BY <5>3, <6>1
        <5>7. QED
          BY <5>1, <5>2, <5>4, <5>5, <5>6
      <4>2. QED
        BY <1>1, <2>2, <4>1 DEF Replaces, AtMostOne
    <3>6. CASE Uncounted(s) \/ Repost(s)
      BY <1>1, <3>6 DEF Uncounted, Repost, Replaces
    <3>7. CASE \E flag \in BOOLEAN : Read(s, flag)
      <4>1. PICK flag \in BOOLEAN : Read(s, flag)
        BY <3>7
      <4>2. CASE flag
        <5>1. OpenOf(t)' = OpenOf(t) /\ ids'[t] = open /\ wire'[t] = "sent" /\ pc[t] = "read" /\ wire[t] = "none" /\ pc'[t] = "order"
          BY <1>1, <2>4, <4>1, <4>2 DEF Read, OpenIds, OpenOf, Orders, TypeOK, Local
        <5>2. OpenOf(t) \subseteq open
          BY DEF OpenOf
        <5>3. QED
          BY <1>1, <2>2, <5>1, <5>2, <4>1, <4>2 DEF Replaces, AtMostOne, Read
      <4>3. CASE ~flag
        BY <1>1, <4>1, <4>3 DEF Read, Replaces
      <4>4. QED
        BY <4>2, <4>3
    <3>8. CASE \E kept \in SUBSET ids[s] : Replace(s, kept)
      <4>1. PICK kept \in SUBSET ids[s] : Replace(s, kept)
        BY <3>8
      <4>2. CASE kept = {}
        <5>1. /\ open' = open \ ids[t] /\ pc[t] = "replace" /\ wire[t] = "none" /\ wire'[t] = "none"
              /\ pc'[t] \in {"scan", "done"} /\ UNCHANGED <<book, faults>>
          BY <1>1, <2>4, <4>1, <4>2 DEF Replace, TypeOK, Local
        <5>2. OpenOf(t)' = OpenOf(t) \ ids[t]
          BY <5>1 DEF OpenOf, Orders
        <5>3. QED
          BY <1>1, <2>2, <5>1, <5>2 DEF Replaces, AtMostOne
      <4>3. CASE kept # {}
        BY <1>1, <4>1, <4>3 DEF Replace, Replaces
      <4>4. QED
        BY <4>2, <4>3
    <3>9. QED
      BY <1>4, <3>2, <3>3, <3>4, <3>5, <3>6, <3>7, <3>8
  <2>5. QED
    BY <2>3, <2>4
<1>5. CASE \/ UNCHANGED vars \/ (\E S \in SUBSET Sessions : Stop(S)) \/ (\E s \in Sessions : Swallowed(s))
           \/ (\E ltp \in Prices, heavy \in BOOLEAN : Move(ltp, heavy)) \/ (\E i \in open : Fill(i))
  BY <1>1, <1>2, <1>5 DEF vars, Stop, Swallowed, Move, Fill, task, broker
<1>6. QED
  BY <1>3, <1>4, <1>5 DEF Next

\* However many grabbers run: one that met no error and was not stopped has at most one order
\* open between two cycles and when it ends.
THEOREM OneOpenEver == Spec => []OneOpenOrder
<1>1. Init => Bounded /\ Apart /\ \A s \in Sessions : Replaces(s)
  BY BoundedInit, TallyInit
<1>2. Bounded /\ Apart /\ (\A s \in Sessions : Replaces(s)) /\ [Next]_vars
        => (Bounded /\ Apart /\ \A s \in Sessions : Replaces(s))'
  BY TypeStep, LocalStep, ApartStep, ReplacesStep DEF Bounded
<1>3. Bounded /\ Apart /\ (\A s \in Sessions : Replaces(s)) => OneOpenOrder
  <2> SUFFICES ASSUME Bounded, faults = 0, NEW s \in Sessions, s \notin stopped, pc[s] \in {"scan", "done"}, Replaces(s)
               PROVE  Cardinality(OpenOf(s)) <= 1
    BY DEF OneOpenOrder, OpenOf
  <2>1. AtMostOne(OpenOf(s))
    BY DEF Replaces, Bounded, Local
  <2>2. CASE OpenOf(s) = {}
    BY <2>2, FS_EmptySet
  <2>3. CASE OpenOf(s) # {}
    <3>1. PICK i : OpenOf(s) = {i}
      BY <2>1, <2>3 DEF AtMostOne
    <3>2. QED
      BY <3>1, FS_Singleton
  <2>4. QED
    BY <2>2, <2>3
<1>4. QED
  BY <1>1, <1>2, <1>3, PTL DEF Spec
\* Whatever the limits of the sessions are, and whatever prices and percentages the broker
\* reports: an order that it accepted is priced at or above the last price it was bought at, and
\* within the day's limit that the percentage gives.
THEOREM PricesEver == Spec => []PricedWithinDay
<1>1. Init => PricedWithinDay
  BY DEF Init, PricedWithinDay
<1>2. Bounded /\ Apart /\ PricedWithinDay /\ [Next]_vars => PricedWithinDay'
  <2> SUFFICES ASSUME Bounded, PricedWithinDay, [Next]_vars PROVE PricedWithinDay'
    OBVIOUS
  <2>1. ASSUME NEW s \in Sessions, Accept(s) PROVE PricedWithinDay'
    <3>1. quote[s] \in Prices /\ Change[quote[s]] < StopAt
      BY <2>1 DEF Accept, Bounded, Local
    <3>0. PICK price \in Targets(quote[s]) :
            book' = Append(book, [by |-> s, ltp |-> quote[s], price |-> price, qty |-> Quantity(quote[s])])
      BY <2>1 DEF Accept
    <3>2. quote[s] <= price /\ price * (10000 + Change[quote[s]]) <= 11500 * quote[s]
      BY <3>1, TargetsWithinDay
    <3> DEFINE order == [by |-> s, ltp |-> quote[s], price |-> price, qty |-> Quantity(quote[s])]
    <3>3. book' = Append(book, order)
      BY <3>0
    <3>4. /\ DOMAIN book = 1..Len(book) /\ Len(book) \in Nat /\ DOMAIN book' = 1..Len(book) + 1
          /\ \A i \in 1..Len(book) : book'[i] = book[i]
          /\ book'[Len(book) + 1] = order
      BY <3>3 DEF Bounded, TypeOK
    <3>5. order.ltp = quote[s] /\ order.price = price
      OBVIOUS
    <3> HIDE DEF order
    <3>6. QED
      BY <3>2, <3>4, <3>5 DEF PricedWithinDay
  <2>2. CASE UNCHANGED book
    BY <2>2 DEF PricedWithinDay
  <2>3. QED
    BY <2>1, <2>2
    DEF Next, vars, broker, Start, LoggedIn, Cancelled, Swallowed, NotLive, Rise, Refuse, Repost, Placed, Refused, Uncounted,
        Begin, Read, Replace, Stop, Move, Fill
<1>3. QED
  BY <1>1, <1>2, BoundedEver, PTL DEF Spec
=============================================================================
