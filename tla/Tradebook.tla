------------------------------ MODULE Tradebook ------------------------------
(***************************************************************************)
(* The stored trades of an account, the weeks they were fetched for, and   *)
(* the stored holdings (main.py: tradebook_history_cache, tradebook_       *)
(* history_refreshes, dp_holdings_cache; the pages /tradebook_history and  *)
(* /dp_holdings and the background refresh; the paged reads of tms.py).    *)
(* Time is in days; the exchange trades during the day, so that a day is   *)
(* complete only when it is over.                                          *)
(***************************************************************************)
EXTENDS TradeLots, Sequences

CONSTANTS
  Trades,       \* what may be traded: [id, date, symbol, side, qty, price]
  Requests,     \* requests and background refreshes at work at once
  PageRanges,   \* the ranges a page asks for
  HistoryStart, \* TRADEBOOK_HISTORY_START_DATE
  LastDay,      \* the days the model runs for
  WeekDays, YearDays, PageSize, MaxPages, RefreshDays,
  Styles,       \* how the broker may page: "totals", "plain", "all"
  MaxFaults

\* Nothing was traded on the day the history starts: TMS is younger.  Rows of TMS differ in
\* their identifiers.  The limit of 500 pages of a year is never met.
ASSUME TradebookAssumption ==
  /\ {HistoryStart, LastDay, WeekDays, YearDays, PageSize, MaxPages} \subseteq Nat \ {0}
  /\ HistoryStart < LastDay /\ YearDays > 1
  /\ RefreshDays \in Nat /\ MaxFaults \in Nat
  /\ IsFiniteSet(Trades) /\ Cardinality(Trades) < MaxPages * PageSize
  /\ \A t \in Trades : {t.id, t.date, t.qty, t.price} \subseteq Nat /\ (Usable(t) => t.date > HistoryStart)
  /\ \A t, u \in Trades : t.id = u.id => t = u
  /\ PageRanges \subseteq Nat \X Nat

VARIABLES
  day, made,    \* today, and what has been traded
  style,        \* how the broker pages: with totals, without, or everything at once
  tradeCache,   \* tradebook_history_cache
  marks,        \* tradebook_history_refreshes: the day each range was last fetched
  holdingsCache, \* dp_holdings_cache: since when, and the trades its prices are from
  faults,
  job           \* what each request is doing
bookVars == <<day, made, style, tradeCache, marks, holdingsCache, faults, job>>

Idle == [stage |-> "idle", late |-> FALSE,
         since |-> 0, left |-> {}, pages |-> <<>>, rows |-> {}, pieces |-> {}]

BookInit ==
  /\ day = HistoryStart + 1 /\ made = {t \in Trades : t.date \in 1..HistoryStart}
  /\ style \in Styles
  /\ tradeCache = {} /\ marks = <<>> /\ holdingsCache = [since |-> 0, basis |-> {}]
  /\ faults = 0
  /\ job = [r \in Requests |-> Idle]

Within(trades, range) == {t \in trades : t.date \in range[1]..range[2]}

-----------------------------------------------------------------------------
(* Which weeks are fetched.                                                *)

Smaller(a, b) == IF a < b THEN a ELSE b
\* _iter_week_ranges: the weeks of a range, counted from its first day.
Weeks(range) ==
  {<<d, Smaller(d + WeekDays - 1, range[2])>> : d \in {e \in range[1]..range[2] : (e - range[1]) % WeekDays = 0}}
MutantFresh(week) == week \in DOMAIN marks /\ day - marks[week] <= RefreshDays
Fresh(week) == week \in DOMAIN marks /\ day - marks[week] < RefreshDays

\* _stale_trade_ranges: stale weeks that follow each other are fetched as one range.
Stale(range, force) == {week \in Weeks(range) : force \/ ~Fresh(week)}
Joined(weeks, a, b) == \A d \in a..b : \E week \in weeks : d \in week[1]..week[2]
StaleRanges(range, force) ==
  LET stale == Stale(range, force)
      ends == {<<first[1], last[2]>> : first, last \in stale}
  IN {run \in ends : run[1] <= run[2] /\ Joined(stale, run[1], run[2])
        /\ ~Joined(stale, run[1] - 1, run[2]) /\ ~Joined(stale, run[1], run[2] + 1)}

\* _iter_yearly_date_ranges: a range longer than a year is read year by year.
Years(range) ==
  LET cuts == {d \in range[1]..range[2] : d = range[1] \/ d % YearDays = 1} IN
  IF range[2] - range[1] <= YearDays THEN {range}
  ELSE {<<d, Smaller(((d - 1) \div YearDays + 1) * YearDays, range[2])>> : d \in cuts}

First(ranges) == CHOOSE x \in ranges : \A y \in ranges : x[1] <= y[1]
\* The years are read concurrently; only the last can change while they are read, so that
\* one after the other stands for every order.
Reading(j, ranges) ==
  [j EXCEPT !.stage = "reading", !.left = ranges, !.pieces = Years(First(ranges)),
            !.pages = <<>>, !.rows = {}]

-----------------------------------------------------------------------------
(* Requests.                                                               *)

\* /tradebook_history.  Stored rows are answered at once; a range that has not been fetched
\* as a whole lately is then fetched again behind the answer (if a task is left to do it).
Page(r, range, force) ==
  /\ job[r].stage = "idle"
  /\ LET stored == Within(tradeCache, range) # {} /\ ~force
     IN /\ StaleRanges(range, force \/ stored) # {}
        /\ stored => ~Fresh(range)
        /\ job' = [job EXCEPT ![r] = Reading(Idle, StaleRanges(range, force \/ stored))]
  /\ UNCHANGED <<day, made, style, tradeCache, marks, holdingsCache, faults>>

\* /dp_holdings in market hours or forced (what is stored is the answer otherwise), when the
\* holdings have been read: the whole history is brought up to date for their prices.
CoversHistory == (\E t \in tradeCache : t.date <= HistoryStart) /\ \E t \in tradeCache : t.date >= day - 1
HistoryRanges == IF CoversHistory THEN {} ELSE StaleRanges(<<HistoryStart, day>>, FALSE)
Enriched(since, trades) == [since |-> since, basis |-> trades]
Holdings(r) ==
  /\ job[r].stage = "idle"
  /\ IF HistoryRanges = {} THEN holdingsCache' = Enriched(day, tradeCache) /\ UNCHANGED job
     ELSE job' = [job EXCEPT ![r] = Reading([Idle EXCEPT !.since = day], HistoryRanges)] /\ UNCHANGED holdingsCache
  /\ UNCHANGED <<day, made, style, tradeCache, marks, faults>>

\* One page of a year: the broker lists the newest trade first.
Newer(t, trades) == {u \in trades : u = t \/ Before(t, u)}
Place(t, trades) == Cardinality(Newer(t, trades))
PageOf(trades, n) == {t \in trades : style = "all" \/ (Place(t, trades) - 1) \div PageSize = n - 1}
TotalOf(trades) ==
  IF style # "totals" THEN 0 ELSE IF trades = {} THEN 1 ELSE (Cardinality(trades) + PageSize - 1) \div PageSize

\* A page that is the last one: empty, short, more than was asked for, or the last by count.
IsLast(rows, n, total) ==
  rows = {} \/ Cardinality(rows) # PageSize \/ (total # 0 /\ n >= total)
\* _merge_tradebook_pages, with the count that came last.
MergedPages(pages, total) ==
  UNION {pages[n] : n \in {k \in DOMAIN pages : \A i \in 1..(k - 1) : ~IsLast(pages[i], i, total)}}

ReadPage(r) ==
  /\ job[r].stage = "reading" /\ job[r].pieces # {}
  /\ LET listed == Within(made, First(job[r].pieces))
         n == Len(job[r].pages) + 1
         rows == PageOf(listed, n)
         pages == Append(job[r].pages, rows)
         done == [job[r] EXCEPT !.rows = job[r].rows \cup MergedPages(pages, TotalOf(listed)), !.pages = <<>>,
                                !.pieces = job[r].pieces \ {First(job[r].pieces)}]
     IN job' = [job EXCEPT ![r] = IF IsLast(rows, n, TotalOf(listed)) \/ n = MaxPages
                                    THEN done ELSE [job[r] EXCEPT !.pages = pages]]
  /\ UNCHANGED <<day, made, style, tradeCache, marks, holdingsCache, faults>>

\* _cache_trade_rows: the rows and the marks of the range in one transaction; after the last
\* range the request answers, and live holdings are stored, without another await.
Storable(rows) == {t \in rows : Usable(t)}
Marked(range) ==
  [week \in Weeks(range) \cup DOMAIN marks |-> IF week \in Weeks(range) THEN day ELSE marks[week]]
Saved(since, trades) == IF since = 0 THEN holdingsCache ELSE Enriched(since, trades)
Stored(r) ==
  /\ job[r].stage = "reading" /\ job[r].pieces = {}
  /\ LET range == First(job[r].left)
         left == job[r].left \ {range}
     IN /\ tradeCache' = tradeCache \cup Storable(job[r].rows)
        /\ marks' = Marked(range)
        /\ job' = [job EXCEPT ![r] = IF left # {} THEN Reading(@, left) ELSE Idle]
        /\ holdingsCache' = IF left = {} THEN Saved(job[r].since, tradeCache') ELSE holdingsCache
  /\ UNCHANGED <<day, made, style, faults>>

\* A read fails after its retries: when the range is read year by year and the error looks
\* transient the year is read again from its first page, otherwise the page fails, and the
\* holdings are those that were stored when it began.
MutantFault(r, transient) ==
  /\ job[r].stage = "reading" /\ job[r].pieces # {} /\ faults < MaxFaults
  /\ transient => Cardinality(Years(First(job[r].left))) > 1
  /\ faults' = faults + 1
  /\ job' = [job EXCEPT ![r] =
       IF transient THEN [@ EXCEPT !.pages = <<>>, !.pieces = @ \ {First(@)}] ELSE Idle]
  /\ UNCHANGED <<day, made, style, tradeCache, marks, holdingsCache>>
Fault(r, transient) ==
  /\ job[r].stage = "reading" /\ job[r].pieces # {} /\ faults < MaxFaults
  /\ transient => Cardinality(Years(First(job[r].left))) > 1
  /\ faults' = faults + 1
  /\ job' = [job EXCEPT ![r] =
       IF transient THEN [@ EXCEPT !.pages = <<>>] ELSE Idle]
  /\ UNCHANGED <<day, made, style, tradeCache, marks, holdingsCache>>

-----------------------------------------------------------------------------
(* The exchange and the calendar: a request takes less than a day.         *)

Trade(t) ==
  /\ t \notin made /\ t.date = day
  /\ made' = made \cup {t}
  /\ UNCHANGED <<day, style, tradeCache, marks, holdingsCache, faults, job>>
Midnight ==
  /\ day < LastDay /\ \A r \in Requests : job[r].stage = "reading" => ~job[r].late
  /\ day' = day + 1
  /\ job' = [r \in Requests |-> [job[r] EXCEPT !.late = job[r].stage = "reading"]]
  /\ UNCHANGED <<made, style, tradeCache, marks, holdingsCache, faults>>

BookNext ==
  \/ \E r \in Requests :
       \/ \E range \in PageRanges, force \in BOOLEAN : Page(r, range, force)
       \/ \E b \in BOOLEAN : Fault(r, b)
       \/ Holdings(r) \/ ReadPage(r) \/ Stored(r)
  \/ \E t \in Trades : Trade(t)
  \/ Midnight

BookSpec == BookInit /\ [][BookNext]_bookVars

-----------------------------------------------------------------------------
(* Properties.                                                             *)

\* Types: only usable trades that were made are stored or answered.
BookTypeOK ==
  /\ day \in HistoryStart..LastDay /\ made \subseteq Trades
  /\ tradeCache \subseteq {t \in made : Usable(t)}
  /\ \A range \in DOMAIN marks : range[1] <= range[2] /\ marks[range] \in HistoryStart..day
  /\ holdingsCache.basis \subseteq tradeCache
  /\ \A r \in Requests : job[r].stage = "reading" <=> job[r].left # {}

\* A week that is marked as fetched on a day has the trades of every day that was over when
\* it was fetched (the fetch may begin on the day before), whoever marked it, on whatever
\* grid of weeks, however the broker pages and whatever fails between the pages.
MarkedIsStored ==
  \A range \in DOMAIN marks : \A t \in Within(made, range) :
    Usable(t) /\ t.date < marks[range] - 1 => t \in tradeCache

\* The prices of the holdings that are shown and stored count every trade that was older
\* than the refresh interval when their request looked for what to fetch.
SettledTradesCounted ==
  \A t \in made : Usable(t) /\ t.date < holdingsCache.since - RefreshDays => t \in holdingsCache.basis

\* The open lots of a symbol against their definitions without lots: as many as the largest
\* balance of the latest trades, and of them the units bought last; with the quantities of the
\* closed positions they make up everything that was bought.
SumOf(trades, side) == SumFunction([t \in {u \in trades : u.side = side} |-> t.qty])
Balance(trades) == SumOf(trades, "buy") - SumOf(trades, "sell")
OpenQuantity(trades) ==
  LET balances == {0} \cup {Balance(Newer(t, trades)) : t \in trades}
  IN CHOOSE n \in balances : \A m \in balances : m <= n
StillOpen(t, trades) == Clamp(OpenQuantity(trades) - SumOf(Newer(t, trades) \ {t}, "buy"), t.qty)
LotsAreFifo ==
  LET basis == CostBasis(tradeCache) IN
  \A s \in SymbolsOf(tradeCache) :
    LET trades == PricedOf(tradeCache, s)
        bought == {t \in trades : t.side = "buy"}
        closed == Closed(trades)
    IN /\ IF OpenQuantity(trades) = 0 THEN s \notin DOMAIN basis
          ELSE /\ basis[s].quantity = OpenQuantity(trades)
               /\ basis[s].cost = SumFunction([t \in bought |-> t.price * StillOpen(t, trades)])
       /\ OpenQuantity(trades) + SumFunction([t \in DOMAIN closed |-> Total(closed[t])]) = SumOf(trades, "buy")
=============================================================================
