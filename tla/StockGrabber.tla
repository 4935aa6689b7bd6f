---------------------------- MODULE StockGrabber ----------------------------
(***************************************************************************)
(* Stock grabbers (main.py, utils/tms.py): background tasks that watch the *)
(* price of a stock and buy 3% above each rise, replacing the order before *)
(* it.  Every session below is for the same stock of the same account,     *)
(* which the program means to allow once.  Prices are tenths of a rupee,   *)
(* the exchange's tick, and percentages hundredths, as the broker has them.*)
(***************************************************************************)
EXTENDS Integers, Sequences, FiniteSets

CONSTANTS
  Sessions,    \* requests to start a grabber
  Prices,      \* last prices of the stock
  Change,      \* changePercentage, which the broker reports with each price
  MaxOrders,   \* max_order_limit
  StopPercent, \* stop_buy_after_percent, as the user gave it
  Attempts,    \* max_connection_retries of an order's POST
  Resume,      \* per session, the previous price it resumes from; 0 for none
  MaxMoves,    \* bound: changes of the price
  MaxFaults    \* bound: errors and lost answers

ASSUME GrabberConstants ==
  /\ Prices \subseteq Nat \ {0} /\ Prices # {}
  /\ Change \in [Prices -> Int] /\ \A p \in Prices : Change[p] > -10000
  /\ Resume \in [Sessions -> Prices \cup {0}]
  /\ MaxOrders \in Nat \ {0} /\ StopPercent \in Int /\ Attempts \in Nat \ {0}
  /\ MaxMoves \in Nat /\ MaxFaults \in Nat

VARIABLES
  pc,       \* where the request or task of a session is
  stopped,  \* sessions whose task has a cancellation to come
  forgotten,\* sessions a stop has deleted from running_grabbers
  crowded,  \* sessions that started while another was logging in or had not ended yet
            \* (for properties only)
  count,    \* order_limit: orders the grabber counted
  prev,     \* previous_ltp, 0 before the baseline
  quote,    \* the price of the details in hand
  ids,      \* previous_order_ids
  wire,     \* the order of a session on its way: "none", "sent", "accepted" or "refused"
  tries,    \* how often it has been posted
  book,     \* every order the broker accepted
  open,     \* indices of those still open
  market,   \* last price, and whether the volume passed the user's stop
  moves, faults,
  lost      \* per session, accepted orders whose answer did not reach it or was not counted

task == <<pc, stopped, forgotten, crowded>>
broker == <<wire, tries, book, open>>
vars == <<pc, stopped, forgotten, crowded, count, prev, quote, ids, wire, tries, book, open, market,
          moves, faults, lost>>

Init ==
  /\ pc = [s \in Sessions |-> "idle"] /\ stopped = {} /\ forgotten = {} /\ crowded = {}
  /\ count = [s \in Sessions |-> 0] /\ prev = [s \in Sessions |-> 0] /\ quote = [s \in Sessions |-> 0]
  /\ ids = [s \in Sessions |-> {}] /\ wire = [s \in Sessions |-> "none"] /\ book = <<>> /\ open = {}
  /\ market \in [ltp : Prices, heavy : {FALSE}] /\ moves = 0 /\ faults = 0
  /\ lost = [s \in Sessions |-> 0] /\ tries = [s \in Sessions |-> 1]

-----------------------------------------------------------------------------
(* Prices (utils/base_functions).  (Operators named Mutant... are faulty   *)
(* variants of the definition that follows them.)                          *)

Limit == 1500
StopAt == IF StopPercent < 0 THEN 0 ELSE IF StopPercent > Limit THEN Limit ELSE StopPercent
StopReached(ltp) == Change[ltp] >= StopAt

\* 3% above the last price; above 7.843% the highest price of the day, taken off the last price
\* and the percentage.  When that is a whole number of ticks, the floating-point result may be
\* just below it, and is truncated to one tick less.
DayLimit(ltp) == (11500 * ltp) \div (10000 + Change[ltp])
Whole(ltp) == DayLimit(ltp) * (10000 + Change[ltp]) = 11500 * ltp
Targets(ltp) ==
  IF Change[ltp] <= 784 THEN {(103 * ltp) \div 100}
  ELSE {DayLimit(ltp)} \cup (IF Whole(ltp) THEN {DayLimit(ltp) - 1} ELSE {})
Quantity(ltp) == IF Change[ltp] <= 740 THEN "order_quantity" ELSE "final_order_quantity"

-----------------------------------------------------------------------------
(* Requests of the page.                                                   *)

Goto(s, at) == pc' = [pc EXCEPT ![s] = at]
Active(s) == pc[s] \notin {"idle", "login", "done"}
Running == {s \in Sessions : Active(s) /\ s \notin forgotten}   \* running_grabbers

MutantMayStart(s) == TRUE
MayStart(s) == Running = {}
\* The grabber is registered only after the login that follows the check.
Start(s) ==
  /\ pc[s] = "idle" /\ MayStart(s)
  /\ Goto(s, "login")
  /\ crowded' = IF \E t \in Sessions : pc[t] = "login" \/ (t \in forgotten /\ Active(t)) THEN crowded \cup {s} ELSE crowded
  /\ UNCHANGED <<stopped, forgotten, count, prev, quote, ids, broker, market, moves, faults, lost>>
LoggedIn(s) ==
  /\ pc[s] = "login" /\ Goto(s, "gate")
  /\ UNCHANGED <<stopped, forgotten, crowded, count, prev, quote, ids, broker, market, moves, faults, lost>>

\* The session is forgotten at once; its task ends when it next runs, and its locals with it.
Stop(S) ==
  /\ S # {} /\ S \subseteq Running /\ stopped' = stopped \cup S /\ forgotten' = forgotten \cup S
  /\ UNCHANGED <<pc, crowded, count, prev, quote, ids, broker, market, moves, faults, lost>>
Cancelled(s) ==
  /\ s \in stopped /\ Active(s) /\ Goto(s, "done")
  /\ count' = [count EXCEPT ![s] = 0] /\ prev' = [prev EXCEPT ![s] = 0] /\ ids' = [ids EXCEPT ![s] = {}]
  /\ UNCHANGED <<stopped, forgotten, crowded, quote, broker, market, moves, faults, lost>>
\* Unless the scan waits for a stream it restarts or closes: ensure_stream and close_symbol
\* swallow the cancellation, and the task that nobody can stop any more goes on.
Swallowed(s) ==
  /\ s \in stopped /\ pc[s] = "scan" /\ stopped' = stopped \ {s}
  /\ UNCHANGED <<pc, forgotten, crowded, count, prev, quote, ids, broker, market, moves, faults, lost>>

-----------------------------------------------------------------------------
(* The task.  A step of it is enabled while no cancellation is to come.    *)

At(s, at) == pc[s] = at /\ s \notin stopped

\* The market gate lets it scan (it waits as long as not), and the baseline is read unless one
\* is known; the count starts anew.  A baseline that cannot be read is not read again.
Begin(s, baseline) ==
  /\ At(s, "gate") /\ Goto(s, "scan")
  /\ count' = [count EXCEPT ![s] = 0]
  /\ \/ /\ baseline /\ UNCHANGED faults
        /\ prev' = [prev EXCEPT ![s] = IF Resume[s] > 0 THEN Resume[s] ELSE market.ltp]
     \/ ~baseline /\ Resume[s] = 0 /\ faults < MaxFaults /\ faults' = faults + 1 /\ prev' = [prev EXCEPT ![s] = 0]
  /\ UNCHANGED <<stopped, forgotten, crowded, quote, ids, broker, market, moves, lost>>

MutantAfterScan(s) == "gate"
\* An order ends the grabber when the exchange closes; without one it waits and begins again.
AfterScan(s) == IF count[s] > 0 THEN "done" ELSE "gate"
NotLive(s) ==
  /\ At(s, "scan") /\ Goto(s, AfterScan(s))
  /\ UNCHANGED <<stopped, forgotten, crowded, count, prev, quote, ids, broker, market, moves, faults, lost>>

\* A price at or below the previous one is scanned again.
Rise(s) ==
  /\ At(s, "scan") /\ 0 < prev[s] /\ prev[s] < market.ltp
  /\ quote' = [quote EXCEPT ![s] = market.ltp]
  /\ Goto(s, IF market.heavy \/ StopReached(market.ltp) THEN "done" ELSE "read")
  /\ UNCHANGED <<stopped, forgotten, crowded, count, prev, ids, broker, market, moves, faults, lost>>

MutantOpenIds(s) == {}
OpenIds(s) == open
\* The orders to replace are read before the new one is sent; unread, none is replaced.
Read(s, known) ==
  /\ At(s, "read") /\ Goto(s, "order")
  /\ \/ known /\ ids' = [ids EXCEPT ![s] = OpenIds(s)] /\ UNCHANGED faults
     \/ ~known /\ faults < MaxFaults /\ faults' = faults + 1 /\ ids' = [ids EXCEPT ![s] = {}]
  /\ wire' = [wire EXCEPT ![s] = "sent"] /\ tries' = [tries EXCEPT ![s] = 1]
  /\ UNCHANGED <<stopped, forgotten, crowded, count, prev, quote, book, open, market, moves, lost>>

\* The broker answers, whether or not the task still waits.  (A 401 is no answer here: the
\* order it refuses is as good as not sent yet.)
Accept(s) ==
  /\ wire[s] = "sent" /\ wire' = [wire EXCEPT ![s] = "accepted"]
  /\ \E price \in Targets(quote[s]) :
       book' = Append(book, [by |-> s, ltp |-> quote[s], price |-> price, qty |-> Quantity(quote[s])])
  /\ open' = open \cup {Len(book) + 1}
  /\ UNCHANGED <<task, tries, count, prev, quote, ids, market, moves, faults, lost>>
Refuse(s) ==
  /\ wire[s] = "sent" /\ wire' = [wire EXCEPT ![s] = "refused"]
  /\ UNCHANGED <<task, count, prev, quote, ids, tries, book, open, market, moves, faults, lost>>

\* No answer arrives, or the connection breaks: _authenticated_request posts the order again,
\* whatever became of it.  (One that reaches the broker after that is taken as accepted before.)
Repost(s) ==
  /\ At(s, "order") /\ tries[s] < Attempts /\ faults < MaxFaults /\ faults' = faults + 1
  /\ wire' = [wire EXCEPT ![s] = "sent"] /\ tries' = [tries EXCEPT ![s] = @ + 1]
  /\ lost' = [lost EXCEPT ![s] = IF wire[s] = "accepted" THEN @ + 1 ELSE @]
  /\ UNCHANGED <<task, count, prev, quote, ids, book, open, market, moves>>

PrevAfter(s) == quote[s]
\* An answer of 200 is logged and timed, then counted.
Placed(s) ==
  /\ At(s, "order") /\ wire[s] = "accepted" /\ Goto(s, "replace")
  /\ wire' = [wire EXCEPT ![s] = "none"] /\ count' = [count EXCEPT ![s] = @ + 1]
  /\ UNCHANGED <<stopped, forgotten, crowded, prev, quote, ids, tries, book, open, market, moves, faults, lost>>
Refused(s) ==
  /\ At(s, "order") /\ wire[s] = "refused" /\ Goto(s, "scan")
  /\ wire' = [wire EXCEPT ![s] = "none"] /\ prev' = [prev EXCEPT ![s] = PrevAfter(s)]
  /\ UNCHANGED <<stopped, forgotten, crowded, count, quote, ids, tries, book, open, market, moves, faults, lost>>

\* An exception from the order to its timing (the last answer lost, the log of the server's time) is
\* caught by the loop: the order is not counted, what it replaces stays, and the price it was
\* bought at is still a rise.
Uncounted(s) ==
  /\ At(s, "order") /\ faults < MaxFaults /\ faults' = faults + 1 /\ Goto(s, "scan")
  /\ wire' = [wire EXCEPT ![s] = "none"]
  /\ lost' = [lost EXCEPT ![s] = IF wire[s] = "accepted" THEN @ + 1 ELSE @]
  /\ UNCHANGED <<stopped, forgotten, crowded, count, prev, quote, ids, tries, book, open, market, moves>>

\* Each order read before is cancelled if it is still open; a cancellation may fail.
Replace(s, kept) ==
  /\ At(s, "replace") /\ kept \subseteq ids[s] \cap open
  /\ open' = open \ (ids[s] \ kept)
  /\ IF kept = {} THEN UNCHANGED faults ELSE faults < MaxFaults /\ faults' = faults + 1
  /\ prev' = [prev EXCEPT ![s] = PrevAfter(s)] /\ ids' = [ids EXCEPT ![s] = {}]
  /\ Goto(s, IF count[s] >= MaxOrders THEN "done" ELSE "scan")
  /\ UNCHANGED <<stopped, forgotten, crowded, count, quote, wire, tries, book, market, moves, lost>>

-----------------------------------------------------------------------------
(* The exchange.                                                           *)

Move(ltp, heavy) ==
  /\ moves < MaxMoves /\ moves' = moves + 1 /\ ltp # market.ltp /\ (market.heavy => heavy)
  /\ market' = [ltp |-> ltp, heavy |-> heavy]
  /\ UNCHANGED <<task, count, prev, quote, ids, broker, faults, lost>>
Fill(i) ==
  /\ i \in open /\ open' = open \ {i} /\ moves < MaxMoves /\ moves' = moves + 1
  /\ UNCHANGED <<task, count, prev, quote, ids, wire, tries, book, market, faults, lost>>

Next ==
  \/ \E s \in Sessions :
       \/ Start(s) \/ LoggedIn(s) \/ Cancelled(s) \/ Swallowed(s)
       \/ (\E baseline \in BOOLEAN : Begin(s, baseline)) \/ NotLive(s) \/ Rise(s) \/ (\E known \in BOOLEAN : Read(s, known))
       \/ Accept(s) \/ Refuse(s) \/ Repost(s) \/ Placed(s) \/ Refused(s) \/ Uncounted(s)
       \/ \E kept \in SUBSET ids[s] : Replace(s, kept)
  \/ \E S \in SUBSET Sessions : Stop(S)
  \/ \E ltp \in Prices, heavy \in BOOLEAN : Move(ltp, heavy)
  \/ \E i \in open : Fill(i)
  \/ (\A s \in Sessions : pc[s] = "done") /\ UNCHANGED vars

Spec == Init /\ [][Next]_vars

-----------------------------------------------------------------------------
(* Properties.                                                             *)

\* Tasks, orders and bounds have their types.
TypeOK ==
  /\ pc \in [Sessions -> {"idle", "login", "gate", "scan", "read", "order", "replace", "done"}]
  /\ stopped \subseteq Sessions /\ forgotten \subseteq Sessions /\ crowded \subseteq Sessions
  /\ count \in [Sessions -> 0..MaxOrders] /\ prev \in [Sessions -> Prices \cup {0}]
  /\ quote \in [Sessions -> Prices \cup {0}] /\ ids \in [Sessions -> SUBSET Nat]
  /\ wire \in [Sessions -> {"none", "sent", "accepted", "refused"}] /\ tries \in [Sessions -> 1..Attempts]
  /\ book \in Seq([by : Sessions, ltp : Prices, price : Nat, qty : {"order_quantity", "final_order_quantity"}])
  /\ open \subseteq DOMAIN book /\ market \in [ltp : Prices, heavy : BOOLEAN]
  /\ moves \in 0..MaxMoves /\ faults \in 0..MaxFaults /\ lost \in [Sessions -> 0..MaxFaults]

Orders(s) == {i \in DOMAIN book : book[i].by = s}

\* A grabber places no more orders than its limit and those whose acceptance it never counted,
\* whatever closings of the exchange, restarts of its scan and repeated posts come between.
LimitKept == \A s \in Sessions : Cardinality(Orders(s)) <= MaxOrders + lost[s]

\* Each order replaces the one before: between two cycles, and when it ends by itself, a
\* grabber that met no error has at most one order open.
OneOpenOrder ==
  faults = 0 =>
    \A s \in Sessions \ stopped : pc[s] \in {"scan", "done"} => Cardinality(Orders(s) \cap open) <= 1

\* The 409 of stock_grabber: two tasks buy the same stock only if one was started while
\* another was logging in, or before the task of a stopped one had ended, which a swallowed
\* cancellation may put off for good.
OneUnlessCrowded ==
  \A s, t \in Sessions : s # t /\ Active(s) /\ Active(t) => s \in crowded \/ t \in crowded

\* Orders are priced at the last price or above it (a tick may round the day's limit down to
\* it), and within the limit of the day that the broker's percentage gives.
PricedWithinDay ==
  \A i \in DOMAIN book :
    /\ book[i].ltp <= book[i].price
    /\ book[i].price * (10000 + Change[book[i].ltp]) <= 11500 * book[i].ltp

\* The grabber announces "max n orders" when it starts.
LimitForAll == \A s \in Sessions : Cardinality(Orders(s)) <= MaxOrders
=============================================================================
