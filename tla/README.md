# A formal model of tms-automation

tms-automation places and watches stock orders on NEPSE brokers' "TMS" portals. A
FastAPI process (`main.py`) keeps scheduled orders in PostgreSQL; a background task scans
them, fetches quotes, evaluates strategies and posts orders through one authenticated
HTTP session per broker client. Everything but a few scrapes runs on **one asyncio event
loop with synchronous SQLAlchemy sessions**: two steps interleave only where code awaits,
but a database lock that one coroutine holds over an await stops the whole process when
another one waits for it.

These TLA+ modules describe the parts where that matters, state what the code should
guarantee, check it with TLC on small instances and prove the most important statements
with TLAPS for every value of the constants. Paths below are relative to `src/`.

## 1. Inventory

### Components that carry the program's logic

**Scheduled-order monitor** (`utils/monitor_order.py`) - modelled in part: `OrderMonitor`.
State: the status, quantities, `is_executed` and `runner_lock_id` of the rows of
`scheduled_orders`, the database session of the scan in progress, the snapshot of due
orders. Operations: load the due orders; per order skip, keep watching, recover, track,
expire, claim, submit, record; one commit at the end, a rollback on any exception, a
cancellation wherever it awaits. Interacts with the HTTP session of each client (every
await), the handlers (shared rows), quotes and strategies (the decision), order logs (row
lock), the exchange (effects no rollback undoes).
Hard: the effect on the exchange precedes the commit; the claim is a row lock and not a
committed status; the snapshot is minutes old when it is used; a POST is retried when its
answer is lost.
Correct when: no order is submitted beyond what was asked, deleted or ended orders are
never posted, history has each ended order once, the claim excludes everybody else, a
submission comes to an end, cancellations hit the order that is handled.

**Scheduled-order handlers** (`main.py` 2380-2680, `utils/strategy_builder`'s batch and
screener-drop schedules) - two views: `OrderMonitor` has them against the scan, `Schedules`
against each other and a moving market.
State: a request-scoped session; the row as loaded; what the preflight, the baseline and
the references captured; the references twice, as rows of a table and in the configuration. Operations: create, add, edit, refresh references, batch, drop
batch, delete, batch delete, clear all. Hard: the checks, the captures and the commit are
separated by awaits of the broker; a refresh holds no lock before it writes, so that two of
them overlap; a removal may wait synchronously for the scan's row lock. Correct when: what has executed is not edited, a removal writes history once, a
repeated request makes no second order, an order has all the references its plan reads, no
handler can stop the loop.

**Monitor control** (`utils/scheduled_monitor_control.py`, `config/tms_config.py`,
`main.py` 745-784 and 3789-3805) - `MonitorControl`.
State: `is_running`, `check_orders_task`, the supervisor task. Operations: start, stop,
supervise, the API's two endpoints, shutdown. Hard: four callers share a flag and a handle
that a fifth, the ending monitor, clears. Correct when: the flag stands for a live task, at
most one monitor is in its cycle, stops return, the shutdown ends.

**Market gate and status** (`utils/market_gate.py`, `market_status.py`,
`market_live_state.py`, the cache of GET answers of `utils/tms.py`) - `MarketGate`.
State: one result of the exchange's session check, its age and lock, an override, the kept
answers per broker. Operations: check, conclude, time out, age. Hard: answers are cached
while the exchange is held closed, and the answer that says so is itself one of them; a
page that gives up may hold the lock. Correct when: what is found live is live, one caller
asks at a time, an open exchange is noticed.

**TMS session** (`utils/tms.py`, `main.py` 127-167) - `TmsSession`.
State: tokens and headers of a client, `_session_lock`, the process-wide
`_full_login_lock`, the cool-down after a failed refresh. Operations: authenticated request
with retries, refresh, validate, captcha login, cached login, recreate the HTTP session.
Hard: the locks are awaited while other locks are held, and `asyncio.Lock` is not
re-entrant. Correct when: each path leaves its locks, a token is renewed with nothing of the
client on the wire, requests end, a renewed token is used.

**Accounts: background logins and password rotation** (`main.py` 1463-1600 and 2080-2130,
`utils/tms.py` 480-680, `utils/tms_user_loader.py`, `utils/tms_client_resolver.py`) -
`Accounts`. State: the saved password, the session row, the cached client, the registered
login task, the rotation lock, the backups. Operations: queue and run a login, reconcile by
a page, the login form, login-all, the monitor's own login, create, edit, delete, rotate,
restart. Hard: any of these overlap over one account; the broker's change of a password
precedes two local writes; a login writes at its end what it read at its beginning. Correct
when: one background login runs, no row stays "logging_in" for ever, the password the broker
has is known, a password is rotated once.

**Stock grabber** (`main.py` near 877, `utils/tms.py` 2080-2230) - `StockGrabber`. A loop
per script that buys above each new price and withdraws the order before it; a table of
running tasks; stop one, stop all. Hard: registration after a login; the count of the order
after several fallible calls; a POST that is repeated when its answer is lost; cancellations
that streams swallow. Correct when one loop runs per key, the limit is kept, one order is
open.

**Live quote sockets** (`utils/live_quote_socket.py`, `monitor_order.py` 205-235 and
630-735, the quote pages of `main.py` 3230-3330) - `LiveQuoteSocket` for the manager and the
monitor's fetch, `QuotePages` for the pages. State: one record per symbol with the task that
runs its upstream socket, the last quote and its time, a count of messages; per client and
script the monitor's count of failures and its cool-down. Operations: ensure, restart, close,
close all, the task's own life, the fetch with its attempts and its fallback on polling, a
page that waits for messages beyond those it has seen. Hard: a record leaves the table under
the lock and its task is awaited after it; a quote is carried over a restart; a restarted
record counts from zero. Correct when no task runs without its record, a price counts as the
socket's only if that socket received it, fetches end, no page is left on a dead stream.

**Market data jobs** (`utils/market_data`) - `MarketData`. State: the cache table, the
exclusive flag of `executor.py`, worker threads, the daily snapshot. Operations: the
scheduler's tick with its four tasks, the refresh job, the warm-up. Hard: a thread outlives
its cancelled awaiter; a job combines what it read before an await. Correct when the job is
exclusive, rows agree with their parts, an empty cache is filled.

**Strategies** (`utils/strategies`) - `Strategies`. Functions of a quote, an order and the
memory of earlier scans; their state is in the row. Hard: the memory is written at different
places of a scan, around a submission that may be refused. Correct when an order never sells
more than it has, and protective exits keep to their confirmations.

**Strategy builder** (`utils/strategy_builder`, `utils/lot_size.py`) - `Rules` and
`RuleSizing` for the evaluation, `SchedulePreflight` for the checks before scheduling. Hard:
confirmation, trigger and limit of a rule are remembered in JSON between scans; quantities
pass two lot checks. Correct when a rule executes as often as it may and orders are whole
lots.

**Trade history and holdings** (`main.py` 200-640, paged reads of `utils/tms.py`) -
`Tradebook` for the stored trades and the marks of fetched weeks, `TradeLots` for cost basis
and lots. Hard: pages shift while they are read; a week may be fetched while its last day
still trades. Correct when a marked week is complete, prices count settled trades, lots are
first-in-first-out.

**Order logs and scan counts** (`utils/log_sender.py`) - the row lock and the removal with
the last order of the pair are in `OrderMonitor`; the counters are not modelled.

### Components without a protocol of their own

Portal settings (key-value rows), persistence (tables, migrations, seeding), external data
sources (scrapers), the captcha solver and the language-model client (external models), the
React frontend (polls the API), services and scripts (deployment, stand-alone tools), and
the tests, which were read for what they claim. They are listed in `PROJECT.json` as not
modelled.

### Behaviours that are hard to test

`PROJECT.json` lists each one at its line with the properties about it. They fall into
these groups:

* effects that precede their commit (`monitor_order.py:994`, `tms.py:1743`, `tms.py:551`,
  `tms.py:2194`);
* snapshots used after an await (`main.py:2657`, `monitor_order.py:600`, `tms.py:661`,
  `nepse_alpha_bulk.py:356`, `tms.py:2176`, `main.py:2590`);
* row locks and asyncio locks held across awaits (`main.py:2488`, `tms.py:1727`,
  `tms.py:260`, `market_live_state.py:43`);
* a shared flag or task cleared by the wrong owner (`monitor_order.py:1024`,
  `main.py:2103`, `main.py:877`);
* cancellations swallowed, or that end the awaiter and not the work (`main.py:758`,
  `executor.py:46`);
* caches that answer about themselves or too long (`tms.py:1698`, `monitor_order.py:681`,
  `main.py:326`);
* memory between scans that one path forgets to write or reset (`handlers.py:296` and 918,
  `capital_protection.py:171`, `monitor_order.py:334`);
* boundaries of quantities (`monitor_order.py:930`, `execution_quantity.py:245`,
  `main.py:555`).

## 2. The modules

| module | what it is |
|---|---|
| `OrderLifecycle` | abstract specification of an order: scheduled once, submitted only while scheduled, ended once with one history entry, or cleared |
| `OrderMonitor` | the monitor, the handlers of the same rows, sessions, locks and the exchange; implements `OrderLifecycle` |
| `MonitorControl` | who starts and stops the monitor |
| `MarketGate` | whether the exchange is live, shared by the monitor and the pages |
| `TmsSession` | the locks, refreshes and logins of a client's HTTP session |
| `LiveQuoteSocket` | the shared quote sockets and the monitor's way of taking a price from them |
| `QuotePages` | the pages that follow a socket |
| `Accounts` | saved passwords, background logins and rotations of one account |
| `StockGrabber` | grabbers of one stock |
| `MarketData` | the market-data cache and its jobs |
| `Strategies` | the built-in strategies over the scans of one order |
| `Rules`, `RuleSizing` | a rule-based order over its scans; prices, quantities and lots |
| `Schedules`, `SchedulePreflight` | the requests that make and change orders; what is asked of a query first |
| `Tradebook`, `TradeLots` | the stored trades and their marks; cost basis and lots |
| `OrderMonitor_proofs`, `TmsSession_proofs`, `LiveQuoteSocket_proofs`, `StockGrabber_proofs`, `Accounts_proofs` | inductive invariants and theorems of the module of that name |
| `MonitorControl_proofs` | of `MonitorControl` and `MarketGate` |
| `StoredData_proofs` | of the modules about stored data, `MarketData`, `Tradebook` and `TradeLots` |
| `StrategyOrders_proofs` | of the modules about orders with a strategy: `Rules` with `RuleSizing`, `Strategies`, `Schedules` with `SchedulePreflight` |
| `MC...` | the instances TLC checks |

`PROJECT.json` maps each definition to the lines it stands for. Operators named `Mutant...`
are plausible bugs, each next to the definition it would replace; the properties must
notice them.

### How they meet

The modules meet at the awaits. `TmsSession` shows that a request can wait for its own
lock for ever; `OrderMonitor` has that outcome as `AwaitHangs` (phase `"hung"`),
`MonitorControl` as `Hang`, `MarketGate` as `Hangs` and `LiveQuoteSocket` as a poll that
hangs. `MonitorControl` decides when the monitor starts and is
cancelled; `OrderMonitor` has these as `Start` and `Stop`. `MarketGate` is what a cycle
passes before it loads anything. `LiveQuoteSocket` is what happens inside the phase
`"fetching"` of `OrderMonitor`, whose fetches run concurrently, one per due order; the
swallowed cancellation in `MonitorControl` is the await of a cancelled stream in it.
`Strategies` and `Rules` are the decision that `OrderMonitor` leaves open, over many scans
of one order; their submissions may be refused at each scan, which is what `OrderMonitor`
shows to be possible. A login in `Accounts` is the captcha login of `TmsSession`.

Three MC modules hold two components each: `MCMonitorControl` (`MonitorControl` and
`MarketGate`), `MCLiveQuoteSocket` (`LiveQuoteSocket` and `QuotePages`) and `MCScans`
(`Strategies` and `Rules`). The two share no variable, hence a behaviour explores one
of them while the other rests in an initial state: the product would only
multiply their states, and every property names variables of one alone.

### OrderMonitor

The state follows the program: `table` holds the committed rows, `touched` and `work` the
rows the scan's open session has written and how it sees them, `due` the snapshot of
`_load_monitor_cycle_data`, `phase`, `cur`, `qty` and `attempt` the position of the monitor
coroutine, `edit` the update handlers in flight with the row each loaded, `blocked` an
event loop stuck in a synchronous database call, `book` and `placed` what the exchange
knows. `asked`, `lost`, `unanswered` and `staleEdits` are ghosts.

* One action is what the code does from one await to the next. `AtAwait` lists the phases
  in which other coroutines run; while `phase = "scanning"` no handler moves.
* Statuses that only say what a strategy waits for ("Tracking ...", "Waiting ...") are one
  status, `"Monitoring"`. Statuses of a row that is about to be deleted (executed, failed,
  expired, cancelled) are `NoRow`: the code copies the row to `order_status_logs` and
  deletes it in the same session.
* Quotes and strategies are the choice of the decision they lead to: `SkipOrder`, `Track`,
  `Expire`, `Claim`.
* The exchange accepts, refuses, does not answer, or accepts without the answer arriving.
* A write to a row that another session has written blocks the loop (`ScanHangs`,
  `RemovalHangs`, `EditHangs`): PostgreSQL waits for the other transaction, which waits for
  the loop, and no `lock_timeout` is set.
* `Crash` is a kill of the process: locks, sessions and handlers vanish, the exchange keeps
  what it accepted.

### TmsSession

Each coroutine is idle, queued for a lock, on the wire, waiting to retry, in a refresh, or
in a captcha login. A lock is the queue of those that want it; the head holds it. An entry
names the task *and* whether it is the task's own request or the request that validates a
new session: a task may stand in the same queue twice. The refresh is under the lock of the
request that got the 401, as in the code.

### MonitorControl and MarketGate

`MonitorControl`: the flag, the handle, the state of every monitor task ever created, the
task that each stop awaits, the supervisor and the progress of the shutdown. A task
cancelled before its first step never runs its `finally`; one cancelled inside a price fetch
goes on until the fetch has swallowed the cancellation; a stop cancelled while it awaits
takes the cancellation for the monitor's.

`MarketGate`: `dna` is the shared result with "less than three seconds old" as a Boolean,
`holder` the lock, `checker` each caller of `get_shared_dna_session` (the monitor asks its
accounts in turn, a page only its own), `override` and `sessions` the switch and the content
of the cache of GET answers for the one request that matters here. A request decides
whether its answer will be kept when it is sent (`Ask`); the broker answers for the exchange
as it is then (`Replies`); the caller processes the answer, and keeps it, in a later step
(`Answered`), when the exchange may have opened or closed. So a result may turn active for an
exchange that has just closed, and `ConfirmedOnly` says what is left: it was open at some
time since the account was turned to (`wasOpen`, a ghost). A 401 whose refresh succeeds keeps
the lock for ever, which only the eight seconds of a page end (`Hangs`, `Timeout`). Ages are
Booleans that time may turn at any moment.

### LiveQuoteSocket and QuotePages

`current` is the table `_streams`, `stream` the records with the state of their tasks,
`caller` where each coroutine is that called the manager. Nothing awaits while the lock is
held, so taking it never waits and what it protects is one step: `StartStream` and
`CloseSymbols` change the table and cancel, then the caller awaits (`Go`) until the
cancelled tasks are done.

* A record that has left the table is only its task, since nobody reads it again (a task
  still writes to it while it is being cancelled).
* Time is the age of the last quote: at most 8 seconds, less than 20, more, none received.
  A quote taken over from the record before is `"carried"` and has no age.
* A fetch that sees a quote of the current stream takes it before time passes (`Ages`): the
  code polls at least every half second and is woken by each message.
* The poll that a fetch falls back on goes through the authenticated request: it is answered,
  fails, or waits for ever after a 401 (`"hung"`). Nothing in the program bounds it.
* `Streams` are identities that are used again once nobody can refer to them.
* The quote page, the quote endpoint, the grabber and the shutdown are `Requesters`: they
  may start (forced or not, allowed in a closed market or not), close one and close all.

`QuotePages` looks at the same record from the side of the pages: an operation of the
manager is one step, and the record keeps what a page looks at: its status, whether the
failure was one of authentication, the count of its messages, whether the quote is its own.
A page remembers the count it has seen and is told nothing of other pages, which restart the
stream from zero or close it.

### Accounts

One account, since nothing here is shared between accounts but the full-login lock, which
the module has. `flow` are the coroutines that log it in, each with its kind, place and the
password it carries; a page's slot becomes the slot of the login it queues. Passwords are
numbers, as a rotation numbers their tails. The broker's change, the update of the account
and the write of the backup are separate outcomes of one candidate; either local write may
fail, which the code prints and forgets. `due` says that today's expiry makes the saved
session stale; `restarted` that a process died and no page has looked since; `revived` that
since then the failed login of a page wrote the row of an account that was deleted while the
page waited: it queues the user it loaded before (`main.py` 1582-1587), the row says
"logging_in", and no login is registered (`Revives`).

### StockGrabber

All sessions are for the same stock of the same account, which the program means to allow
once. `pc` is where a request or task is, `count`, `prev`, `quote` and `ids` are the loop's
locals, `wire` its order in flight and `tries` how often it was posted, `book` and `open` the
broker's orders. `crowded` and `lost` are ghosts.

* The broker accepts or refuses a POST whether or not its answer arrives. The authenticated
  request posts again after a lost answer, up to three times (`Repost`), so that one order of
  the loop may become several accepted ones, of which the last is counted.
* A stop deletes the session from the table and cancels its task (`forgotten`, `stopped`).
  The cancellation ends the task at its next await (`Cancelled`) or, while the scan waits for
  a stream, is swallowed (`Swallowed`): then the task that nobody can stop any more goes on
  buying beside its successor.
* Prices are tenths of a rupee, the exchange's tick, and percentages hundredths, as the broker
  reports them. The day's limit is taken off the last price and the rounded percentage; where
  it comes out as a whole number of ticks the floating-point division may truncate it to one
  less (`Targets`), which for a price at the limit is the price itself.

### MarketData

Data is a version number: the state of the outside pages it was read from. A row has the
two stored halves and the halves that its combined column shows. Each job is at an await
(`phase`), and may have a thread that runs, has returned, or fetches. `got` and `base` are
what a job has fetched and what it had read before. A tick creates its four tasks in one
step and the first part of each runs in the order of creation, which is what makes the
exclusive flag go to the snapshot task.

### Strategies, Rules and RuleSizing

Both follow one order over its scans. A scan reads a quote, appends to the price history,
decides, passes the risk guard, writes the row and submits; the submission is taken,
refused, kept back, or kept back with the claim still held. What a later scan knows is in
`row` (`Strategies`) or `hist` (`Rules`) and in nothing else, so the models are about what is
written when.

* `Strategies` has each handler with its conditions over quotes, details and settings;
  prices a percentage is taken of are thousandths, so that nothing is rounded. A time-based
  purchase wraps a strategy without memory (`StrategyConstants`), as the catalogue's do; a
  price that is not set is 0, the others are positive whole rupees.
* `Rules` has the evaluation of a plan: eligibility, requirements, scores, conditions that
  count or remember scans or look back over trades (crossings, runs, moves, slope, trend,
  rolling values) and at the order book, confirmation, trigger, limits, cooldown, exits,
  delegation, expiration, paper mode. A function without a value compares as false. A quote
  has the number of its trade, or 0 where it does not tell the time of it: all such quotes are
  one observation of the price, none is fresh, and each confirms anew. `seen` is a ghost: the
  trades, and the scans without one, that a rule's condition held at. Left out: deviations, positions and
  percentiles within a sector, changes of enumerated indicators, spread and pressure of the
  book. `PurchasesLimited` leaves out rules priced from the top buyer: such a purchase fires
  also on a quote without a last price, and is then not marked (`handlers.py` 918-926), so
  that its limit does not hold.
* `RuleSizing` has limit prices, the modes of quantity and the lot rule as pure operators.

### Schedules and SchedulePreflight

`SchedulePreflight` is pure: what a query needs (`FieldSource`), which rules apply to a
symbol, the verdicts of the gates over what the broker answers. `Schedules` puts it into
requests: each task of a request is at a stage between two awaits, with the row it is
preparing; the market may move at any of them, or a call fail. A batch works on its symbols
concurrently, each in a session of its own with three attempts; a drop batch one after the
other in one session, which is committed at the end with what failed symbols have flushed.
`answers` is what the broker and Nepse Alpha answer at the moment.

References are kept twice: `refs` are the rows of the table, `shown` the copy in the
configuration, which is what the monitor reads. A capture replaces both under ids of its own.
A refresh reads the rows and the order, awaits the quotes, and then writes the rows whose
value is another now, and the configuration from its own copy if that differs from the one it
read (`Refreshed`). It holds no lock before, so any number of refreshes and edits of an order
overlap: rows captured anew in between make it fail, rows refreshed in between it does not
notice, and its copy undoes them in the configuration alone. This lost update is in the model
as it is in the code; `ReferencesCover` says that it is the only way for the two to disagree
in a value (`overtaken`), and that neither ever lacks a reference of the plan. An edit holds
the row's lock from its flush to its commit; whoever writes to the row meanwhile stops the
loop, which is `OrderMonitor`'s subject, and here does not take that step. `Followers` are
requests that only refresh, so that a run may have a request that makes an order and two that
overlap on it.

Two simplifications: columns in which the form of an edit agrees with what it read at its
beginning are not written by the code, also when another edit changed them since; the model
writes them. And a refresh that changes no value waits for an edit's lock although, before
that edit has captured, it would not have to.

The key of an order that the duplicate check compares (`KeyOf`) has the trigger a plan was
compiled with, and the preview replaces the quantity before the commit. So a second request
of the same form is certain to be recognised only by one of the two: `Second` says that the
first order has a quantity no preview changes, or that neither captured its trigger.

### Tradebook and TradeLots

Days and weeks of two days; `made` are the trades, `tradeCache` and `marks` the two tables,
`holdingsCache` the stored holdings with the trades their prices counted. A request reads years page
by page, newest first, in three ways a broker may page; trades made meanwhile shift the
pages. Storing rows and marks is one transaction. `TradeLots` has lots and cost basis. A lot is
what is left of a purchase; the lots of a share are a fold over its trades from the first to the
latest, in which a sale takes of each lot what it does not take of the older ones. A sale's closed
positions are what it takes of the lots that the trades before it have left.

## 3. What is checked

### Passing runs

| run | instance | what it shows |
|---|---|---|
| `order_one` | one capital-protection sell, up to 2 units, 3 POST attempts, up to 8 units at the exchange | over-submission only after a rolled-back scan, a lost answer or a late edit (`NoOverSubmission`); `HistoryOnce`; `ClaimIsExclusive`; under weak fairness `SubmissionResolves`; refinement of `OrderLifecycle` (`ImplementsLifecycle`) |
| `order_two` | two orders of one client and script, one rule based | `HangNeedsOpenTransaction`; `StrandedIsNotPosted` |
| `session_locks` | two coroutines, two clients, 2 attempts, weak fairness | `LocksFollowTasks`; `OneOnTheWire`; `OnlySelfWaitBlocks`: whoever does not wait for its own lock ends |
| `control_flag` | four monitor tasks, two API stops, supervisor, shutdown; the gate with two accounts of one broker, a page, one failure | `RunningHasMonitor`; `KeepsRunning`; `ShutdownCompletes`. Gate: `OneCheck`; `ConfirmedOnly`; `GateOpens` |
| `quote_streams` | one symbol, one fetch whose poll may hang, one other user, three streams, 2 attempts; two pages, two messages, two failures | `NoOrphan`; `SocketPricesAreOwn`; `FetchEnds`. Pages: `NoPageLeft` |
| `market_cache` | one symbol, two versions of the outside pages, one change of anything outside | `OneThread`; `DisagreesOnlyByOverlap`; `EmptyIsFilled` |
| `scans` | twenty-four plans over four scans, of quotes with or without the time of their trade; every built-in strategy over five scans of 41 quotes | `PurchasesLimited`; `OnePerCrossing`; `WholeLots`. Strategies: `SalesWithinQuantity`; `ConfirmedBreach` |
| `grabbers` | two requests for one stock, limit 2, three POST attempts, four prices up to the day's limit, two price moves, one fault | `LimitKept`; `OneOpenOrder`; `OneUnlessCrowded` |
| `account_logins` | two overlapping flows of every kind, three passwords, one fault | `RotatesOnce`; `RecoverablePassword`; `PendingHasTask` |
| `schedules` | two overlapping requests of sixteen kinds and one that refreshes over two symbols, one event | `NoSecondOrder`; `ReferencesCover`; `SoldFromHolding` |
| `tradebook` | four trades over three trading days, two requests, one failed read | `MarkedIsStored`; `SettledTradesCounted`; `LotsAreFifo` |

Where a property has exceptions in it, they are the finding: `NoOverSubmission` names the
three accidents after which the exchange may hold too much, `DisagreesOnlyByOverlap` the
overlaps that spoil a row of the cache, `OneUnlessCrowded` the ways to two grabbers (a request
during another's login, or before a stopped task has ended, which may be never), `LimitKept`
the accepted orders that a grabber is not told of, `PendingHasTask` the failed login of a
page that revives a deleted account, `ReferencesCover` the overtaken refresh, `FetchEnds` and
`GateOpens` the request that waits for its own lock,
`RecoverablePassword` the lost writes after which a password is in nobody's hands.

### A run that finds a disagreement

`refresh_resolves`: "refreshing login token and retrying" (`tms.py:1647`; and
`performance_optimizations_test.py:135`, which mocks the refresh). The validation of the
refreshed session queues on the lock its request holds, and the request never ends although
every call of the broker does.

### Configurations that show disagreements

These are kept beside the runs and can be checked alone; TLC violates each property. Each
checks one sentence that the program says of itself.

| module, configuration | the sentence | what happens |
|---|---|---|
| `MCOrderMonitor`, `OrderMonitor_foreign.cfg` (`CancelsOwnSellOnly`) | "Cancel a freshly placed stop-loss sell if price recovers" (`monitor_order.py:244`) | the watch holds every open id of the symbol (line 959); another order is withdrawn |
| `MCOrderMonitor`, `OrderMonitor_filled.cfg` (`CancelledWasOpen`) | "Sell cancelled after recovery" (`monitor_order.py:263`) | recorded although the sell was filled before |
| `MCOrderMonitor`, `OrderMonitor_edited.cfg` (`ExecutedIsNotEdited`) | "Order with status ... cannot be edited" (`main.py:2644`) | the order executes during the await of the validation and becomes pending again with its full quantity (line 2657) |
| `MCMonitorControl`, `MonitorControl_two.cfg` (`OneMonitor`) | "Check orders loop is already running." (`main.py:3792`) | the `finally` of a stopped monitor (`monitor_order.py:1024`) clears the flag of its successor, and a third is started beside it |
| `MCLiveQuoteSocket`, `LiveQuoteSocket_dead.cfg` (`FailedSocketPolls`) | "failed - using stock quote polling" (`orderStrategyDetails.ts:102` and its test) | authentication fails on a stream that has received a quote; the record is neither restarted (`live_quote_socket.py:205`) nor dropped, and every later fetch takes that quote however old it is (`monitor_order.py:681`) |
| `MCMarketData`, `MarketData_mode.cfg` (`LiveModeScrapes`) | `"merolagani_mode": "live_scrape" if market_open` (`scheduler.py:90`) | the first task of a tick takes the exclusive flag for the snapshot before it awaits, the Merolagani task finds it up and skips, at each tick (line 205) |
| `MCScans`, `Strategies_memory.cfg` (`OrderBookBuyFires`) | "Buy when order book buy pressure is strong." (`strategy_query_catalog.py:117`) | the price is appended to the history before the memory is built (`monitor_order.py:334`), so the price is never above the previous one |
| `MCRules`, `Rules_once.cfg` (`OnceMeansOnce`) | "EXECUTE ONCE - one execution per rule then stop" (`strategy_llm_prompt.py:780`) | the mark is serialized again for purchases only (`handlers.py:919`); a partial sale is followed by another |
| `MCStockGrabber`, `StockGrabber_limit.cfg` (`LimitForAll`) | "max {max_order_limit} orders" (`tms.py:2093`) | an order whose answer is lost is posted again (lines 1735-1743), or an exception between the answer and the count (line 2205) leaves it uncounted: it is bought twice and counted once, or not at all |
| `MCSchedules`, `Schedules_holding.cfg` (`SellNeedsHolding`) | "Cannot schedule SELL: no sellable DP holding" (`schedule_preflight.py:468`) | an empty map of holdings counts as unreadable, and the check is skipped |

### Bounds

* Orders: one order reaches every branch of the scan; two are needed for a shared session,
  shared locks, foreign open orders, and an exception in one order that rolls back another.
  The handlers touch rows independently, so a third adds no new kind of conflict.
* `MaxQty = 2` in `order_one` allows a partial execution followed by the rest; with 1 the
  remaining quantity never differs from 0 and the whole.
* `MaxAttempts = 3` in `order_one` is the program's value; the other runs take 1 or 2, where
  retries only multiply states. In the refresh run it is 3.
* `MaxPlaced` caps what the exchange may hold of an order. It is a guard of `Claim` alone,
  and leaves room for at least two full submissions with all retries wherever
  over-submission is a question.
* `Orders` bounds creations: an id is created once, as in the database.
* `Monitors` bounds the tasks ever created. Three suffice to see one clear another's flag
  and a third start; `KeepsRunning` says "as long as identities last".
* Two accounts of one broker share the key of a kept answer, which is what can go wrong in
  the gate; with two brokers each answer is its own. One page is enough to hold the lock
  the monitor waits for. `MaxErrors` bounds checks that fail and pages that give up.
* Two coroutines and two clients: a deadlock over two kinds of lock needs two of each, and
  in a FIFO queue a third waiter repeats what the second meets. `expired`, `cooling` and
  `nonLive` change freely.
* One symbol, one fetch and one other user: records of different symbols share nothing but
  close-all, and a stream at any time is current or awaited by one of the two, so three
  identities never run out. `MaxAttempts` and `Threshold` are 2 in `quote_streams` (a
  failure below the threshold, one at it) and the program's 3 in the configuration of a dead
  socket.
* Two pages, `MaxCount = 2`, `MaxBreaks = 2`: one page may restart or close what the other
  waits on, a count may be behind, at or beyond the count after a restart, and the restarted
  stream may fail as well.
* `MarketData`: jobs work on symbols independently except for the lock of the enriching
  thread, so one symbol has every overlap; two versions tell old data from new;
  `MaxChanges` is one change of the market, the day, the pages or a due time, on top of
  initial states that have them either way.
* `Flows`: two coroutines; `MaxPassword = 3` lets a rotation rotate again, refused or not;
  `MaxFaults = 1` is one lost answer, failed write or restart's lost change.
* `StockGrabber`: a stock that closed at 10.10; its prices 10.40, 10.90, 11.30 and 11.60 are
  below the threshold of 7.843 %, above it twice, and at the day's limit, where the stop of
  14 % is reached; two orders let one replace another, and one fault is a lost answer, an
  exception, a failed cancellation or a page that cannot be read. The second request resumes
  from an earlier price.
* Four scans of `Rules`: confirmation over two or three scans and an order after a failed
  condition fit; prices are on either side of each condition, and 0 is a closed market.
  Five scans of `Strategies`: two breaches, a refusal and two more. `Window` is three
  instead of 500 observations, no condition reads more than three. Every function of a
  condition occurs in a plan (`MCRules`) that has quotes on either side of it.
* `Schedules`: two symbols for batches, two requests of any kind and a third that refreshes,
  which is what an order and two overlapping refreshes of it, or of an edit, need; one event,
  because what a second one changes is read by a later stage that the first one could have
  met. In the run on
  holdings the account holds nothing at first.
* `Tradebook`: three trading days make two weeks of two days and a page range that begins in
  the middle of one; pages of two rows split four trades; a year of two days is read as two.
* The longest runs: `grabbers` has 5.9 million states, `account_logins` 3.5, `scans` 2.3 and
  `schedules` 1.1; each takes one to three minutes with two workers.
* `MaxScans`, `MaxMoves`, `LastDay`, `MaxEvents` end behaviours, so `market_cache`, `scans`,
  `schedules` and `tradebook` do not check deadlock; everywhere else it is checked.

### Fairness

* `OrderMonitor!FairSpec`: weak fairness of `MonitorStep` as a whole, nothing for the
  handlers, for `Load` or for the exchange. The event loop resumes a coroutine whose await
  has ended, and HTTP awaits end because the client has timeouts. The awaits that do not
  end are those of a lock, which is the outcome `AwaitHangs`. A blocked loop takes no step
  and is excepted in the property.
* `TmsSession!FairSpec`: weak fairness per coroutine. asyncio locks are FIFO and requests
  have timeouts.
* `MonitorControl!Fairness`: weak fairness of each monitor's own steps, of the supervisor,
  the shutdown, and the return of a stop. Not of the API's calls, of failures, or of hangs.
* `MarketGate!GateFairness`: the monitor calls at each scan; what a caller does by itself
  goes on, because requests have timeouts, unless the request hangs on its own lock
  (`Hangs`, which `GateOpens` excepts of the monitor; a page that hangs is ended by its
  timeout, `asyncio.wait_for`); the three seconds of a result and the hour of a
  kept answer pass. Entering the lock has strong fairness: an `asyncio.Lock` wakes its
  waiters in order, so one that waits gets it although others take it in between. Nothing
  of pages' calls, of failures or of the exchange.
* `LiveQuoteSocket!Fairness`: weak fairness of what each stream's task does by itself
  (connecting, the look at the market every ten seconds and closing have timeouts), of a
  fetch that has begun, and of the return of a call. Not of messages, failures, requests,
  time, the market or cool-downs: a fetch ends because it gives up. Its last resort, a poll,
  is answered or times out, or hangs: that it ends is not assumed, and `FetchEnds` says so.
* `QuotePages!PagesFairness`: weak fairness of each page's own steps, since every wait of a
  page has a timeout of 25 seconds or less. Not of the stream.
* `MarketData!FairSpec`: the scheduler ticks, and each job that has begun goes on: threads
  return, because scrapes have timeouts. Not of pages that answer, which `EmptyIsFilled`
  has as its premise, nor of requests.

## 4. What is proved

Under the modules' named assumptions on constants only (sub-sets and functions of the right
sort, bounds natural numbers, sentinels outside the types), for any number of orders, tasks,
symbols, callers, sessions and flows. `TypeOK` of a module that has proofs is a theorem and
is in no run, except that of `Rules` (below).

**`OrderMonitor_proofs`**: `TypeCorrect`, `HistoryCorrect` (`HistoryOnce`), `QuantityCorrect`
(`NoOverSubmission`), `ClaimExclusive` (`ClaimIsExclusive`), `HangExplained`
(`HangNeedsOpenTransaction`), `StrandedEver` (`StrandedIsNotPosted`) and `RefinesLifecycle`
(`Spec => ImplementsLifecycle`, the refinement). That is every safety property checked of
it. None of the state properties is inductive by itself. `IInv` adds what they rest on:

* `SessionOK`: between scans no row is locked; at the broker the monitor has the claim of
  `cur` and a quantity; rows the session has written are no longer due. Without it an
  action could find the broker answering for an order nobody claimed.
* `LocksOK`: rows locked by the scan exist and are not locked by an edit, and only
  rule-based edits hold locks over an await. This is why removals and edits cannot change a
  claimed row, and why `HistoryOnce` survives a commit.
* `WatchesOK`: an order that watches for a recovery has executed and is a capital-protection
  sell, hence not editable and not posted again.
* `HistoryOK`: `HistoryOnce`, and that rows in the table were created and not cleared, and
  that only created orders were ever placed.
* `QuantityOK`: for a plain order untouched by the three accidents, placed plus remaining is
  what was asked, in the committed row for what earlier sessions placed and in the session's
  row for everything, except for the one answer not recorded yet; the submission under way
  fits into the remainder.

The argument: a rollback makes the committed row agree with less than the exchange has, so
every rolled-back order that was posted goes to `lost`; a commit replaces the committed row
by the session's; claims keep quantities; a POST moves units from "remaining" to "the
answer not recorded yet" and the record makes up for it. One lemma per part of `IInv` shows
it preserved, with one step per group of actions; `StepKinds` splits `Next`. `OpenSession`
adds that outside a scan the session has no locks, which makes a hang need a transaction;
`ClaimedIsActive` adds that the committed row of the order at the broker has an active
status, because it is locked. The refinement shows `Init` to be the lifecycle's, and each
kind of step to be create, submit, end, clear, or a stutter of it.

**`MonitorControl_proofs`**: `RunningIsBacked` (`RunningHasMonitor`) and `TypeCorrect`. With
`TypeOK` the property is inductive: whoever ends or cancels a task also clears the flag.

Of the gate: `OneCheckEver` (`OneCheck`) and `ConfirmedEver` (`ConfirmedOnly`). The latter rests
on `SuccessNotKept`: an answer that confirms the exchange makes it live, and that empties the
cache in the same step, so that no kept answer can ever confirm it. What confirms is then an
answer to a request of the account that is asked: `SeenOpen` says that whoever asks while the
exchange is open has `wasOpen`, hence so has whoever was told that it is (`ConfirmsOpen`),
however late that is processed. `SomebodyLeft` says that whoever asks has an account left to
ask.

**`TmsSession_proofs`**: `LocksFollowEver` (`LocksFollowTasks`), `OneOnTheWireEver`
(`OneOnTheWire`) and `TypeCorrect`. `Standing` says which entries of the queues each coroutine
has at each place; `InFront` that who is on the wire, or renews a token for a request, has the
entry at the head; `Local` what a coroutine may be, in particular that a request which
validates its own new session never gets past the queue, since it stands there behind itself;
`LoginAlone` that a client has one login. All steps of a coroutine go through `TurnKeeps`: a
step of one coroutine keeps the invariant when it exchanges only entries of its own and its
new state fits the entries it leaves.

**`LiveQuoteSocket_proofs`**: `TypeCorrect`, `NoOrphanEver` (`NoOrphan`) and
`SocketPricesCorrect` (`SocketPricesAreOwn`). `IInv` adds that only a caller in a call awaits
streams, so that starting a call forgets none (`CallersOK`), and that a record with an age
holds a quote of its own, so that "fresh" implies "received here" (`AgesOK`). `TaskMoves`
covers what a task does to its record, `CloseKeeps` and `StartKeeps` what the manager does to
the table, `GoesKeeps` and `EndsKeeps` what a caller does.

**`StoredData_proofs`**, market data: `OneThreadEver` (`OneThread`), `AgreementKept`
(`DisagreesOnlyByOverlap`) and `TypeCorrect`. `Control` ties the flag to the thread: who holds
it waits for a thread, and nobody else has one but a cancelled tick. `Data` ties what a job
has read to what the table may have become, so that a write that spoils a row is one whose
reading is out of date.

The trade history: `MarkedEver` (`MarkedIsStored`), `SettledEver` (`SettledTradesCounted`) and
`BookTypeCorrect`, for any trades, ranges, page size and way of paging. A marked week is
complete because of what is known of a reading in progress, while trades made meanwhile push
the rows on to later pages: `RangeRead` has every old trade of the range read already or in a
year still to be read, `PagesRead` has those of the current year on its pages or still behind
them in the list, and says that no page was the last one (it was full, and the broker's count
had more), so that a reading that stops has all of them. `HistoryRead` carries this to the
holdings: what they are to count is stored or in a range still to be fetched. `WorkOK` says
since when a request reads, `StoresOK` that what is stored was traded.

The lots: `FifoEver` (`LotsAreFifo`), for any purchases and sales of any shares. What a fold or a
sum computes for every set is proved by an induction that is stated with sets only:
`SetInduction` says that a set of subsets that contains the empty one, and every subset whose
subsets by one less it contains, contains them all (the least cardinality of a counterexample
exists, `LeastExists`). With it `FoldExists` gives the function that a fold chooses, `SumIsFold` and
`OpenLotsIs` the step of each, and `SumRemove`, `SumPlus`, `SumSplit` and `SumWithoutZeros` the
arithmetic of sums. `OpenQuantityIs` shows the largest balance to follow the trades one by one,
`LastBoughtSum` that the parts of the newest purchases add up to what is open, and `LotsAreLast`,
by induction over the trades, that the lots are exactly those parts: a sale takes from the oldest
what the definition no longer counts. `OpenOrClosed` and `CostIs` give the two equations of the
property. `TradebookAssumption` has quantities and prices as natural numbers for this.

**`StockGrabber_proofs`**: `LimitEver` (`LimitKept`), `OneOpenEver` (`OneOpenOrder`),
`CrowdedOnly` (`OneUnlessCrowded`), `PricesEver` (`PricedWithinDay`) and `TypeCorrect`. `Local`
bounds the count by the place in the loop; `Tally` says that the orders of a session are those
counted, those lost (reposted after they were accepted, or accepted and never counted), and
the one on the wire; `Replaces` that, without a fault, what is open is the last order and
those read to be replaced; `Apart` that of two sessions under way one met the other, which a
task that swallowed its cancellation does not change, since it stays forgotten and under way.
`TargetsWithinDay` is the arithmetic of the limit for any prices and percentages: truncated by
a tick or not, a target is at the last price or above, and within the day. Cardinalities of
sets of orders go through `FiniteSetTheorems`.

**`Accounts_proofs`**: `PendingEver` (`PendingHasTask`), `RecoverableEver`
(`RecoverablePassword`), `RotatesOnceEver` (`RotatesOnce`) and `TypeCorrect`. `Shape` says what
kind of coroutine may be where; `Tasks` adds that an account that was deleted and still has its
login task is not "logging_in", so that only a page that finds no task can revive its row; `Remembered` that without a fault the broker's password is in the backups, and
is larger than the number of rotations, so that a login with an older one cannot rotate it.
`Outcome` classifies what a step makes of a coroutine and of the row, and `OutcomeKeeps` is
the one lemma that all actions go through.

**`StrategyOrders_proofs`**, rules: `LimitsEver` (`PurchasesLimited`), `WholeLotsEver`
(`WholeLots`) and `CrossingsEver` (`OnePerCrossing`), for any plans, quotes, holdings and
number of scans. `RulesIInv` relates what the row remembers to what has happened, which it is
only evidence of: a rule that has not failed since its last order remembers that it held
(`CrossingKnown`); a streak counts no more than the trades that were seen, the last of them
no later than the confirming one, and the scans that told of no trade (`StreakSeen`); the count of a buying rule is at least its
orders (`PurchasesMarked`). The lemma `LotRuleKeeps` says of the pure operators of
`RuleSizing`, for every lot, holding and quantity, that what passes the lot rule is whole lots
or leaves whole lots.

Built-in strategies: `SalesEver` (`SalesWithinQuantity`) and `ConfirmedBreachEver`
(`ConfirmedBreach`). `StrategyIInv` has the sum of what was sold and what is left equal to the
order's quantity, each sold target marked and sold once, and no more breaches counted than
were seen in a row; `Outcome` describes what any scan does to the row and the sales, and each
strategy is shown to do no more. `StrategyTypeCorrect` (`Strategies!TypeOK`) adds the prices: a
limit is a natural number whatever percentage is taken off its reference, because that only
ever raises the bid or the last price it starts from. `ScansAreBoth`: the composition that TLC runs is a behaviour
of both specifications.

Requests: `ReferencesEver` (`ReferencesCover`), `SoldEver` (`SoldFromHolding`) and `SecondEver`
(`NoSecondOrder`), for any requests that overlap, forms, symbols and markets. `ScheduleIInv`
needs the row that a task works on to be its own, of its symbol (`WorkKept`), an edit or
refresh to be of a committed row (`TargetKept`), and what a preflight found held to be held as
long as nothing changed (`HoldingKept`). `CoverIInv` is about references: every committed row
is covered or reported (`RowsCovered`); whoever captured or refreshed a row is done with it
(`RowsSpent`), so that the same ids mean the same capture and the same refreshes; `TasksCovered`
says what each task owes. A new order's draft is covered from its capture on; an edit that has
the lock sees the row as it is now; a refresh has read a covered row, and if nobody captured
or refreshed it since, it is the row there is now. `OneLock` makes the lock of an edit
exclusive, which is why an edit may write what it saw. What a refresh has read is typed and,
unless it was edited, still the order it was (`ReadTypes`, `ReadsUnedited`). `SecondIInv` adds what a task has made of its form's
quantity and trigger, what a committed row keeps of them (`RowsAsked`), and that a task beyond
its check found no second order among the rows its request saw (`NoneBefore`): the rows seen
stay as they are in everything that recognises them. `ScheduleTypeCorrect` (`ScheduleTypeOK`):
tasks keep to the stages there are and to their number of attempts.

Only model-checked:

* the liveness properties `SubmissionResolves`, `OnlySelfWaitBlocks`, `KeepsRunning`,
  `ShutdownCompletes`, `GateOpens`, `FetchEnds`, `NoPageLeft` and `EmptyIsFilled`: fairness and
  ENABLED are out of the prover's reach, and `QuotePages` has no other property;
* `TypeOK` of `Rules`: its histories are folds over the conditions of a rule. `RulesIInv` has the
  types the other proofs need; those of the histories and watermarks no other theorem uses, and
  no run has the property. TLC finds all of it true when it is added to `Scans.cfg`.

## 5. What is not modelled

* When an order is due: staggered scan intervals, scan counts, choice of quote source. The
  snapshot is any non-empty set of eligible orders, which includes what the clock allows.
* In `OrderMonitor`, the contents of decisions: a choice among their outcomes. `Strategies`
  and `Rules` have the contents, one order at a time, without the session.
* `add_order` for several clients at once, the listing and live preview of orders.
* What a status says beyond the classes above; messages; timestamps.
* `_auth_refresh_lock`: only taken by holders of the session lock, so it delays nobody.
* The window in which the monitor should run is a free Boolean in `MonitorControl`, the
  hours of the exchange in `MarketGate`; the calendar of holidays is neither.
* In `QuotePages`, several symbols of one page and streams allowed in a closed market. A page
  whose record another page has closed sends heartbeats without pause (`main.py:3290`); it
  is listed as a hazard, and nothing in the repository says what it should do.
* The length of a login's back-off; several accounts (they share the full-login lock only).
* The grabber's statistics, speed test and stream of updates.
* The screener's queries, presets and field catalogues; history pages; the parser, linter
  and prompts of the strategy builder; previews for display. These transform text and data
  without shared state.
* Portfolio summaries and formatting of the trade history.
* The components marked "not_modelled" in `PROJECT.json`, each with its reason.

## 6. Plan

The plan of the first version is carried out: `OrderMonitor`, `OrderLifecycle`,
`TmsSession`, `MonitorControl`, `LiveQuoteSocket`; then the gate, the pages, market data,
accounts, grabbers, strategies and rules, requests, trades; and the theorems of each. What
would add most next:

1. Two monitors over one table, which `MonitorControl_two.cfg` shows to be possible:
   `OrderMonitor` with two scans and their sessions.
2. `Rules` and `OrderMonitor` together for one order: a submission that is rolled back
   takes the memory of the rule with it.
3. The scan intervals and counters of `monitor_scan_settings.py` and `log_sender.py`.
4. Lemmas on the limit prices of `RuleSizing` for every quote, and on the preview's estimates
   in `SchedulePreflight`.
