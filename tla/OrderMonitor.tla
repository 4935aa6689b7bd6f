---------------------------- MODULE OrderMonitor ----------------------------
(***************************************************************************)
(* The scheduled-order monitor (utils/monitor_order.py), the rows of       *)
(* scheduled_orders it works on, the API handlers that edit the same rows  *)
(* (main.py) and the broker's exchange.                                    *)
(*                                                                         *)
(* One asyncio task scans the due orders and, inside ONE database session  *)
(* for the whole scan, claims an order, posts it to the exchange and       *)
(* records the answer; everything is committed at the end of the scan.     *)
(* The handlers run on the same event loop whenever the monitor awaits.    *)
(* Statuses that only name what a strategy is waiting for are one status,  *)
(* "Monitoring"; quotes, prices and strategies are the nondeterministic    *)
(* choice of the decision they lead to.                                    *)
(***************************************************************************)
EXTENDS Integers, FiniteSets

CONSTANTS
  Orders,             \* ids of scheduled orders
  RuleBased,          \* orders whose strategy_type is rule based
  Sells,              \* sell orders
  CapitalProtection,  \* orders whose strategy is "Capital Protection Sell"
  Pair,               \* Pair[o]: client and script of the order
  MaxQty,             \* bound: largest quantity of an order
  MaxAttempts,        \* max_connection_retries of _authenticated_request
  MaxPlaced,          \* bound: quantity the exchange may hold of one order
  NoRow, NoOrder, NoEdit

Quantity == 1..MaxQty
Active == {"pending", "Monitoring", "Partially executed", "WatchingRecovery"}
LiveStatus == Active \cup {"Executing"}
Row == [status: LiveStatus, qty: Quantity, remaining: 0..MaxQty,
        executed: BOOLEAN, watch: SUBSET Orders]
EditSession == [loaded: Row, qty: Quantity, flushed: BOOLEAN]

ASSUME ConstantsAssumption ==
  /\ RuleBased \subseteq Orders
  /\ CapitalProtection \subseteq Sells
  /\ Sells \subseteq Orders
  /\ CapitalProtection \cap RuleBased = {}
  /\ DOMAIN Pair = Orders
  /\ MaxQty \in Nat \ {0} /\ MaxAttempts \in Nat \ {0} /\ MaxPlaced \in Nat
  /\ NoRow \notin Row /\ NoOrder \notin Orders /\ NoEdit \notin EditSession

VARIABLES
  table,      \* committed rows of scheduled_orders
  logs,       \* number of order_status_logs rows of each order
  created,    \* ids ever inserted
  cleared,    \* ids removed by "clear all", which writes no status log
  edit,       \* an update_scheduled_order call in flight, per order
  blocked,    \* the event loop is stuck in a synchronous database call
  phase,      \* where the monitor task is; "hung": awaiting a lock for ever
  due,        \* due[o]: qty in the scan's snapshot of o, 0 when o is not due
  cur,        \* the order the scan awaits something for
  qty,        \* execution_qty of the submission in progress
  attempt,    \* POSTs of the submission that ended in a transient error
  touched,    \* orders whose row the scan's session has written (row lock)
  logLock,    \* pairs whose order_logs row that session has written
  work,       \* the row as that session sees it, for the touched orders
  book,       \* orders with an open order in the exchange's book
  placed,     \* quantity of each order the exchange has accepted
  txPlaced,   \* the part of it accepted since the session began
  asked,      \* ghost: quantity the user asked for
  lost,       \* ghost: orders accepted in a session that was rolled back
  unanswered, \* ghost: orders accepted by a POST whose answer was lost
  staleEdits  \* ghost: orders edited after they had begun to execute

rowVars == <<table, logs, created, cleared>>
txVars == <<touched, logLock, work, txPlaced>>
subVars == <<cur, qty, attempt>>
exchangeVars == <<book, placed>>
ghostVars == <<asked, lost, unanswered, staleEdits>>
vars == <<rowVars, edit, blocked, phase, due, txVars, subVars, exchangeVars, ghostVars>>

-----------------------------------------------------------------------------
\* (Operators named Mutant... are faulty variants of the definition that follows them:
\* the properties at the end of the module tell the two apart.)
Present == {o \in Orders : table[o] # NoRow}
EditLocked(o) == edit[o] # NoEdit /\ edit[o].flushed
MutantRowLocked == {o \in Orders : EditLocked(o)}
RowLocked == touched \cup {o \in Orders : EditLocked(o)}
Siblings(o) == {p \in Orders : Pair[p] = Pair[o]}
OpenIds(o) == book \cap Siblings(o)       \* get_open_order_ids_for_symbol
View(o) == IF o \in touched THEN work[o] ELSE table[o]

Max0(n) == IF n < 0 THEN 0 ELSE n
OrElse(n, fallback) == IF n = 0 THEN fallback ELSE n    \* Python's "n or fallback"

Eligible(o) ==                            \* _load_monitor_cycle_data
  /\ table[o] # NoRow
  /\ table[o].status \in Active \/ o \in RuleBased

Editable(o) == ~table[o].executed /\ table[o].status # "Partially executed"

\* A row that leaves the table by the program's hand is copied to order_status_logs.
MutantArchive(S) == UNCHANGED logs
Archive(S) == logs' = [o \in Orders |-> IF o \in S THEN logs[o] + 1 ELSE logs[o]]

\* The monitor is suspended in an await, so other coroutines may run.
AtAwait ==
  /\ ~blocked
  /\ phase \in {"stopped", "asleep", "fetching", "recovering",
                "submitting", "posting", "answered", "hung"}

Init ==
  /\ table = [o \in Orders |-> NoRow]
  /\ logs = [o \in Orders |-> 0]
  /\ created = {} /\ cleared = {}
  /\ edit = [o \in Orders |-> NoEdit]
  /\ blocked = FALSE
  /\ phase = "stopped"
  /\ due = [o \in Orders |-> 0]
  /\ cur = NoOrder /\ qty = 0 /\ attempt = 0
  /\ touched = {} /\ logLock = {}
  /\ work = [o \in Orders |-> NoRow]
  /\ txPlaced = [o \in Orders |-> 0]
  /\ book = {} /\ placed = [o \in Orders |-> 0]
  /\ asked = [o \in Orders |-> 0]
  /\ lost = {} /\ unanswered = {} /\ staleEdits = {}

-----------------------------------------------------------------------------
(* The scan: load, fetch, then one order after the other.                  *)

Start ==
  /\ ~blocked /\ phase = "stopped"
  /\ phase' = "asleep"
  /\ UNCHANGED <<rowVars, edit, blocked, due, txVars, subVars, exchangeVars, ghostVars>>

\* The due orders are a snapshot, taken before the prices are fetched.
Load ==
  /\ ~blocked /\ phase = "asleep"
  /\ \E D \in SUBSET {o \in Orders : Eligible(o)} \ {{}} :
       due' = [o \in Orders |-> IF o \in D THEN table[o].qty ELSE 0]
  /\ phase' = "fetching"
  /\ UNCHANGED <<rowVars, edit, blocked, txVars, subVars, exchangeVars, ghostVars>>

BeginScan ==
  /\ ~blocked /\ phase = "fetching"
  /\ phase' = "scanning"
  /\ UNCHANGED <<rowVars, edit, blocked, due, txVars, subVars, exchangeVars, ghostVars>>

Turn(o) == ~blocked /\ phase = "scanning" /\ due[o] # 0
DoneWith(o) == due' = [due EXCEPT ![o] = 0]
Logs(o) == logLock' = logLock \cup {Pair[o]}     \* store_or_update_logs
Stage(o, row) ==
  /\ touched' = touched \cup {o}
  /\ work' = [work EXCEPT ![o] = row]

\* No quote (logged or not), or the row is gone by now.
SkipOrder(o) ==
  /\ Turn(o) /\ DoneWith(o)
  /\ Logs(o) \/ UNCHANGED logLock
  /\ UNCHANGED <<rowVars, edit, blocked, phase, touched, work, txPlaced, subVars,
                 exchangeVars, ghostVars>>

Watched(o) == table[o] # NoRow /\ table[o].status = "WatchingRecovery"
Evaluated(o) == table[o] # NoRow /\ table[o].status # "WatchingRecovery" /\ ~EditLocked(o)

KeepWatching(o) ==
  /\ Watched(o) /\ Turn(o) /\ DoneWith(o) /\ Logs(o)
  /\ UNCHANGED <<rowVars, edit, blocked, phase, touched, work, txPlaced, subVars,
                 exchangeVars, ghostVars>>

\* The price recovered: _handle_recovery_watch awaits the cancellations.
BeginRecoveryCancel(o) ==
  /\ Watched(o) /\ Turn(o) /\ DoneWith(o) /\ Logs(o)
  /\ phase' = "recovering" /\ cur' = o
  /\ UNCHANGED <<rowVars, edit, blocked, touched, work, txPlaced, qty, attempt,
                 exchangeVars, ghostVars>>

Track(o) ==
  /\ Evaluated(o) /\ Turn(o) /\ DoneWith(o) /\ Logs(o)
  /\ Stage(o, [table[o] EXCEPT !.status = "Monitoring"])
  /\ UNCHANGED <<rowVars, edit, blocked, phase, txPlaced, subVars, exchangeVars, ghostVars>>

Expire(o) ==
  /\ Evaluated(o) /\ Turn(o) /\ DoneWith(o) /\ Logs(o)
  /\ Stage(o, NoRow)
  /\ UNCHANGED <<rowVars, edit, blocked, phase, txPlaced, subVars, exchangeVars, ghostVars>>

MutantClaimable(o) == TRUE
Claimable(o) == table[o].status \in Active

\* UPDATE ... WHERE status IN ACTIVE_STATUSES: not committed, but row-locked.
Claim(o, q) ==
  /\ Evaluated(o) /\ Turn(o) /\ Logs(o)
  /\ Claimable(o)
  /\ o \notin RuleBased => q <= OrElse(table[o].remaining, table[o].qty)
  /\ placed[o] + q * MaxAttempts <= MaxPlaced
  /\ Stage(o, [table[o] EXCEPT !.status = "Executing"])
  /\ phase' = "submitting" /\ cur' = o /\ qty' = q
  /\ UNCHANGED <<rowVars, edit, blocked, due, txPlaced, attempt, exchangeVars, ghostVars>>

\* A rule-based order still "Executing" is scanned again, but not claimed.
ClaimRefused(o) ==
  /\ Evaluated(o) /\ Turn(o) /\ DoneWith(o) /\ Logs(o)
  /\ table[o].status = "Executing"
  /\ Stage(o, table[o])
  /\ UNCHANGED <<rowVars, edit, blocked, phase, txPlaced, subVars, exchangeVars, ghostVars>>

\* The scan writes a row an update handler has flushed: the loop hangs.
ScanHangs(o) ==
  /\ Turn(o) /\ table[o] # NoRow /\ table[o].status # "WatchingRecovery" /\ EditLocked(o)
  /\ blocked' = TRUE
  /\ UNCHANGED <<rowVars, edit, phase, due, txVars, subVars, exchangeVars, ghostVars>>

-----------------------------------------------------------------------------
(* submit_scheduled_order_to_tms and what the monitor does with its result *)

Resume ==                                 \* back to the loop over the snapshots
  /\ phase' = "scanning" /\ due' = [due EXCEPT ![cur] = 0]
  /\ cur' = NoOrder /\ qty' = 0 /\ attempt' = 0

Submitting == ~blocked /\ phase = "submitting"

\* Above the day's high, or no quantity resolved: the claim stays on the row.
BlockSubmission ==
  /\ Submitting /\ Resume
  /\ cur \in Sells => cur \in RuleBased
  /\ UNCHANGED <<rowVars, edit, blocked, txVars, exchangeVars, ghostVars>>

\* The DP holding could not be read: _release_execution_claim.
ReleaseClaim ==
  /\ Submitting /\ cur \in RuleBased /\ Resume
  /\ Stage(cur, [work[cur] EXCEPT !.status = "Monitoring"])
  /\ UNCHANGED <<rowVars, edit, blocked, logLock, txPlaced, exchangeVars, ghostVars>>

LotRuleBlocks ==
  /\ Submitting /\ Resume
  /\ Stage(cur, NoRow)
  /\ UNCHANGED <<rowVars, edit, blocked, logLock, txPlaced, exchangeVars, ghostVars>>

BeginPost ==
  /\ Submitting
  /\ phase' = "posting"
  /\ UNCHANGED <<rowVars, edit, blocked, due, txVars, subVars, exchangeVars, ghostVars>>

Posting == ~blocked /\ phase = "posting" /\ attempt < MaxAttempts
Accept ==
  /\ placed' = [placed EXCEPT ![cur] = @ + qty]
  /\ txPlaced' = [txPlaced EXCEPT ![cur] = @ + qty]
  /\ book' = book \cup {cur}

PostAccepted ==                           \* status 200
  /\ Posting /\ Accept
  /\ phase' = "answered"
  /\ UNCHANGED <<rowVars, edit, blocked, due, touched, logLock, work, subVars, ghostVars>>

PostRefused ==                            \* any other status: "Failed"
  /\ Posting /\ Resume
  /\ Stage(cur, NoRow)
  /\ UNCHANGED <<rowVars, edit, blocked, logLock, txPlaced, exchangeVars, ghostVars>>

MutantPostRetried ==
  /\ Posting
  /\ attempt' = (attempt + 1) % MaxAttempts
  /\ UNCHANGED <<rowVars, edit, blocked, phase, due, txVars, cur, qty, exchangeVars, ghostVars>>

\* A connection error or a timeout: the POST is sent again.
PostRetried ==
  /\ Posting
  /\ attempt' = attempt + 1
  /\ UNCHANGED <<rowVars, edit, blocked, phase, due, txVars, cur, qty, exchangeVars, ghostVars>>

\* ... and the exchange had accepted it.
PostAcceptedUnanswered ==
  /\ Posting /\ Accept
  /\ attempt' = attempt + 1
  /\ unanswered' = unanswered \cup {cur}
  /\ UNCHANGED <<rowVars, edit, blocked, phase, due, touched, logLock, work, cur, qty,
                 asked, lost, staleEdits>>

Answered == ~blocked /\ phase = "answered"
MutantLeft == OrElse(work[cur].remaining, due[cur])
Left == Max0(OrElse(work[cur].remaining, due[cur]) - qty)
ToWatch == cur \in CapitalProtection /\ Left = 0 /\ OpenIds(cur) # {}

\* The limit price is too far from the reference: cancel what is open.
RecordSlippageBlock ==
  /\ Answered /\ cur \in Sells /\ Resume
  /\ Stage(cur, NoRow)
  /\ \E C \in SUBSET OpenIds(cur) : book' = book \ C
  /\ UNCHANGED <<rowVars, edit, blocked, logLock, txPlaced, placed, ghostVars>>

RecordExecuted ==
  /\ Answered /\ Left = 0 /\ ~ToWatch /\ Resume
  /\ Stage(cur, NoRow)
  /\ UNCHANGED <<rowVars, edit, blocked, logLock, txPlaced, exchangeVars, ghostVars>>

RecordWatch ==
  /\ Answered /\ ToWatch /\ Resume
  /\ Stage(cur, [work[cur] EXCEPT !.status = "WatchingRecovery", !.remaining = 0,
                                  !.executed = TRUE, !.watch = OpenIds(cur)])
  /\ UNCHANGED <<rowVars, edit, blocked, logLock, txPlaced, exchangeVars, ghostVars>>

RecordPartial ==
  /\ Answered /\ Left # 0 /\ Resume
  /\ Stage(cur, [work[cur] EXCEPT !.status = "Partially executed", !.remaining = Left,
                                  !.executed = TRUE])
  /\ UNCHANGED <<rowVars, edit, blocked, logLock, txPlaced, exchangeVars, ghostVars>>

\* A 401 refreshed under the client's session lock awaits that lock for ever
\* (TmsSession): every broker call of the scan can end this way.
AwaitHangs ==
  /\ AtAwait /\ phase \notin {"stopped", "asleep", "hung"}
  /\ phase' = "hung"
  /\ UNCHANGED <<rowVars, edit, blocked, due, txVars, subVars, exchangeVars, ghostVars>>

-----------------------------------------------------------------------------
(* The end of the session.                                                 *)

MutantNoTransaction ==
  /\ touched' = {} /\ UNCHANGED logLock
  /\ work' = [o \in Orders |-> NoRow]
  /\ txPlaced' = [o \in Orders |-> 0]
  /\ due' = [o \in Orders |-> 0]
  /\ cur' = NoOrder /\ qty' = 0 /\ attempt' = 0

NoTransaction ==
  /\ touched' = {} /\ logLock' = {}
  /\ work' = [o \in Orders |-> NoRow]
  /\ txPlaced' = [o \in Orders |-> 0]
  /\ due' = [o \in Orders |-> 0]
  /\ cur' = NoOrder /\ qty' = 0 /\ attempt' = 0

Rollback ==
  /\ NoTransaction
  /\ lost' = lost \cup {o \in Orders : txPlaced[o] > 0}
  /\ UNCHANGED <<rowVars, exchangeVars, asked, unanswered, staleEdits>>

\* _handle_recovery_watch returns: the order is cancelled, whatever was open.
\* If the row was deleted meanwhile the flush raises StaleDataError.
FinishRecoveryCancel ==
  /\ ~blocked /\ phase = "recovering"
  /\ IF table[cur] # NoRow
       THEN /\ \E C \in SUBSET (table[cur].watch \cap book) : book' = book \ C
            /\ Stage(cur, NoRow)
            /\ Resume
            /\ UNCHANGED <<rowVars, logLock, txPlaced, placed, ghostVars>>
       ELSE phase' = "asleep" /\ Rollback
  /\ UNCHANGED <<edit, blocked>>

Commit ==
  /\ ~blocked /\ phase = "scanning"
  /\ \A o \in Orders : due[o] = 0
  /\ table' = [o \in Orders |-> View(o)]
  /\ Archive({o \in touched : work[o] = NoRow})
  /\ phase' = "asleep"
  /\ NoTransaction
  /\ UNCHANGED <<created, cleared, edit, blocked, exchangeVars, ghostVars>>

\* An exception anywhere in the scan: db.close() rolls everything back.
CycleFails ==
  /\ ~blocked
  /\ phase \in {"scanning", "recovering", "submitting", "posting", "answered"}
  /\ phase' = "asleep" /\ Rollback
  /\ UNCHANGED <<edit, blocked>>

\* stop_scheduled_order_monitor cancels the task where it awaits.
Stop ==
  /\ AtAwait /\ phase # "stopped"
  /\ phase' = "stopped" /\ Rollback
  /\ UNCHANGED <<edit, blocked>>

Crash ==
  /\ phase' = "stopped" /\ blocked' = FALSE
  /\ edit' = [o \in Orders |-> NoEdit]
  /\ Rollback

-----------------------------------------------------------------------------
(* The handlers of main.py, and the exchange.                              *)

Create(o, q) ==
  /\ AtAwait /\ o \notin created
  /\ table' = [table EXCEPT ![o] = [status |-> "pending", qty |-> q, remaining |-> q,
                                    executed |-> FALSE, watch |-> {}]]
  /\ created' = created \cup {o}
  /\ asked' = [asked EXCEPT ![o] = q]
  /\ UNCHANGED <<logs, cleared, edit, blocked, phase, due, txVars, subVars, exchangeVars,
                 lost, unanswered, staleEdits>>

\* Removing the rows S, and the order_logs row of a pair left without orders,
\* waits for a lock of a session that cannot proceed while the loop waits.  (An
\* order_logs row which that session only inserted is not waited for.)
Conflict(S) ==
  \/ S \cap RowLocked # {}
  \/ \E o \in S : Siblings(o) \cap Present \subseteq S /\ Pair[o] \in logLock

Delete(S) ==
  /\ AtAwait /\ S # {} /\ S \subseteq Present
  /\ S \cap RowLocked = {}
  /\ table' = [o \in Orders |-> IF o \in S THEN NoRow ELSE table[o]]
  /\ Archive(S)
  /\ UNCHANGED <<created, cleared, edit, blocked, phase, due, txVars, subVars,
                 exchangeVars, ghostVars>>

Clear ==
  /\ AtAwait /\ Present # {}
  /\ RowLocked = {}
  /\ table' = [o \in Orders |-> NoRow]
  /\ cleared' = cleared \cup Present
  /\ UNCHANGED <<logs, created, edit, blocked, phase, due, txVars, subVars,
                 exchangeVars, ghostVars>>

RemovalHangs(S) ==
  /\ AtAwait /\ S # {} /\ S \subseteq Present
  /\ Conflict(S)
  /\ blocked' = TRUE
  /\ UNCHANGED <<rowVars, edit, phase, due, txVars, subVars, exchangeVars, ghostVars>>

\* update_scheduled_order up to its validation, which awaits the broker.
EditBegin(o, q) ==
  /\ AtAwait /\ table[o] # NoRow /\ edit[o] = NoEdit
  /\ Editable(o)
  /\ edit' = [edit EXCEPT ![o] = [loaded |-> table[o], qty |-> q, flushed |-> FALSE]]
  /\ UNCHANGED <<rowVars, blocked, phase, due, txVars, subVars, exchangeVars, ghostVars>>

\* Only the columns that differ from what the handler loaded are written.
Merged(o) ==
  LET e == edit[o] IN
  [table[o] EXCEPT
     !.qty = IF e.qty # e.loaded.qty THEN e.qty ELSE @,
     !.remaining = IF e.qty # e.loaded.remaining THEN e.qty ELSE @,
     !.status = IF e.loaded.status # "pending" THEN "pending" ELSE @]

SaveEdit(o) ==
  /\ table' = [table EXCEPT ![o] = Merged(o)]
  /\ edit' = [edit EXCEPT ![o] = NoEdit]
  /\ IF table[o].executed
       THEN staleEdits' = staleEdits \cup {o} /\ UNCHANGED asked
       ELSE asked' = [asked EXCEPT ![o] = Merged(o).remaining] /\ UNCHANGED staleEdits
  /\ UNCHANGED <<logs, created, cleared, lost, unanswered>>

\* Flush and commit; nothing awaits in between for a plain strategy.
EditSave(o) ==
  /\ AtAwait /\ edit[o] # NoEdit /\ ~edit[o].flushed
  /\ table[o] # NoRow /\ o \notin touched /\ o \notin RuleBased
  /\ SaveEdit(o)
  /\ UNCHANGED <<blocked, phase, due, txVars, subVars, exchangeVars>>

\* A rule-based order is flushed (row lock), then awaits reference capture.
EditFlush(o) ==
  /\ AtAwait /\ edit[o] # NoEdit /\ ~edit[o].flushed
  /\ table[o] # NoRow /\ o \notin touched /\ o \in RuleBased
  /\ edit' = [edit EXCEPT ![o].flushed = TRUE]
  /\ UNCHANGED <<rowVars, blocked, phase, due, txVars, subVars, exchangeVars, ghostVars>>

EditCommit(o) ==
  /\ AtAwait /\ EditLocked(o)
  /\ SaveEdit(o)
  /\ UNCHANGED <<blocked, phase, due, txVars, subVars, exchangeVars>>

\* Validation or capture failed, or the row is gone (StaleDataError).
EditAbort(o) ==
  /\ AtAwait /\ edit[o] # NoEdit
  /\ edit' = [edit EXCEPT ![o] = NoEdit]
  /\ UNCHANGED <<rowVars, blocked, phase, due, txVars, subVars, exchangeVars, ghostVars>>

EditHangs(o) ==
  /\ AtAwait /\ edit[o] # NoEdit /\ ~edit[o].flushed
  /\ table[o] # NoRow /\ o \in touched
  /\ blocked' = TRUE
  /\ UNCHANGED <<rowVars, edit, phase, due, txVars, subVars, exchangeVars, ghostVars>>

\* External: the exchange fills, or drops at the end of the day, an open order.
LeavesBook(o) ==
  /\ o \in book
  /\ book' = book \ {o}
  /\ UNCHANGED <<rowVars, edit, blocked, phase, due, txVars, subVars, placed, ghostVars>>

-----------------------------------------------------------------------------
ScanStep(o) ==
  \/ SkipOrder(o) \/ KeepWatching(o) \/ BeginRecoveryCancel(o)
  \/ Track(o) \/ Expire(o) \/ ClaimRefused(o) \/ ScanHangs(o)
  \/ \E q \in Quantity : Claim(o, q)

SubmitStep ==
  \/ BlockSubmission \/ ReleaseClaim \/ LotRuleBlocks \/ BeginPost
  \/ PostAccepted \/ PostRefused \/ PostRetried \/ PostAcceptedUnanswered
  \/ RecordSlippageBlock \/ RecordExecuted \/ RecordWatch \/ RecordPartial

MonitorStep ==
  \/ BeginScan \/ FinishRecoveryCancel \/ SubmitStep \/ AwaitHangs
  \/ Commit \/ CycleFails
  \/ \E o \in Orders : ScanStep(o)

EditStep(o) ==
  \/ \E q \in Quantity : EditBegin(o, q)
  \/ EditSave(o) \/ EditFlush(o) \/ EditCommit(o) \/ EditAbort(o) \/ EditHangs(o)

ApiStep ==
  \/ \E o \in Orders, q \in Quantity : Create(o, q)
  \/ \E S \in SUBSET Orders : Delete(S) \/ RemovalHangs(S)
  \/ Clear
  \/ \E o \in Orders : EditStep(o)

Next ==
  \/ Start \/ Load \/ MonitorStep \/ Stop \/ Crash
  \/ ApiStep
  \/ \E o \in Orders : LeavesBook(o)

Spec == Init /\ [][Next]_vars

\* The HTTP client has timeouts, so every await ends or hangs on the lock, and the
\* event loop resumes what has ended.  Load and Start are the user's and the clock's.
FairSpec == Spec /\ WF_vars(MonitorStep)

-----------------------------------------------------------------------------
(* Properties *)

Phases == {"stopped", "asleep", "fetching", "scanning", "recovering",
           "submitting", "posting", "answered", "hung"}

\* Types of the variables: rows keep a live status, quantities their bounds.
TypeOK ==
  /\ table \in [Orders -> Row \cup {NoRow}]
  /\ logs \in [Orders -> Nat]
  /\ created \subseteq Orders /\ cleared \subseteq Orders
  /\ edit \in [Orders -> EditSession \cup {NoEdit}]
  /\ blocked \in BOOLEAN
  /\ phase \in Phases
  /\ due \in [Orders -> 0..MaxQty]
  /\ cur \in Orders \cup {NoOrder} /\ qty \in 0..MaxQty /\ attempt \in 0..MaxAttempts
  /\ touched \subseteq Orders
  /\ logLock \subseteq {Pair[o] : o \in Orders}
  /\ work \in [Orders -> Row \cup {NoRow}]
  /\ book \subseteq Orders
  /\ placed \in [Orders -> Nat] /\ txPlaced \in [Orders -> Nat]
  /\ asked \in [Orders -> 0..MaxQty]
  /\ lost \subseteq Orders /\ unanswered \subseteq Orders /\ staleEdits \subseteq Orders

\* The exchange never holds more of a plain order than the user asked for, however
\* claims, partial executions, edits and deletions interleave, unless one of the three
\* things the code does not survive happened: a rolled-back scan (monitor_order.py:996),
\* a lost answer (tms.py:1739), an edit of an order that had begun to execute.
NoOverSubmission ==
  \A o \in Orders \ RuleBased :
    placed[o] > asked[o] => o \in lost \cup unanswered \cup staleEdits

\* Every order that ever existed is in the table, or has exactly one row in the status
\* history (_status_log_from_order before each db.delete), or was cleared; never two,
\* although scan, API and rollback may all remove it.
HistoryOnce ==
  \A o \in Orders :
    logs[o] = IF o \in created /\ table[o] = NoRow /\ o \notin cleared THEN 1 ELSE 0

\* An order blocked after its claim (monitor_order.py:896) keeps the committed status
\* "Executing".  A rule-based one is scanned again, but until tracking or an edit gives
\* it an active status back, nothing of it is posted: the claim is granted once.
StrandedIsNotPosted ==
  [][\A o \in Orders : table[o] # NoRow /\ table[o].status = "Executing"
       => placed'[o] = placed[o]]_vars

\* While a scan awaits the broker it holds the row locks of what it wrote: the whole
\* event loop can only hang on a row lock (no lock_timeout) while such a transaction, or
\* an edit that awaits its reference capture, is open.
HangNeedsOpenTransaction ==
  blocked => \/ phase \in Phases \ {"stopped", "asleep", "fetching"}
             \/ \E o \in Orders : EditLocked(o)

\* What the table, the history and the clear-all handler make of an order.
StageOf(o) ==
  IF o \notin created THEN "none"
  ELSE IF table[o] # NoRow THEN "scheduled"
  ELSE IF o \in cleared THEN "cleared" ELSE "ended"

Lifecycle == INSTANCE OrderLifecycle WITH
  stage <- [o \in Orders |-> StageOf(o)], history <- logs, submitted <- placed

\* The monitor and the handlers, with their sessions, locks, snapshots and rollbacks,
\* give each order the life OrderLifecycle describes: in particular an order that was
\* deleted or has ended is never posted, although the scan awaits between claim and POST,
\* and a rolled-back scan neither ends an order nor writes history.
ImplementsLifecycle == Lifecycle!Spec

\* Between the first write of a scan to a row and the end of its transaction nothing
\* else changes the row: the claim (monitor_order.py:401) excludes edits and deletions.
ClaimIsExclusive ==
  [][\A o \in touched :
       table'[o] # table[o] => phase = "scanning" /\ phase' = "asleep"]_vars

\* The three that follow state what the program says of itself and does not do.

\* "Cancel a freshly placed stop-loss sell if price recovers above the stop."
\* (monitor_order.py:244): the recovery withdraws that sell and nothing else.
CancelsOwnSellOnly ==
  [][phase' # phase /\ phase = "recovering" => book \ book' \subseteq {cur}]_vars

\* "Sell cancelled after recovery" (monitor_order.py:263): what the history records as
\* cancelled was still open, not filled, when the recovery ended.
CancelledWasOpen ==
  [][phase' = "scanning" /\ phase = "recovering" => cur \in book]_vars

\* "Order with status ... cannot be edited" (main.py:2644): an order that has executed,
\* wholly or in part, never becomes "pending" again.
ExecutedIsNotEdited ==
  [][\A o \in Orders : table[o] # NoRow /\ ~Editable(o) /\ table'[o] # NoRow
       => table'[o].status # "pending"]_vars

InSubmission == phase \in {"recovering", "submitting", "posting", "answered"}

\* A submission ends: recorded, rolled back, or hung on a lock.
SubmissionResolves == InSubmission ~> (~InSubmission \/ blocked)

-----------------------------------------------------------------------------
(* The inductive invariant behind TypeOK, HistoryOnce and NoOverSubmission. *)

AtBroker == phase \in {"submitting", "posting", "answered"}

\* A session exists only during a scan; a submission is of a claimed row.
SessionOK ==
  /\ phase \in {"stopped", "asleep", "fetching"} => touched = {}
  /\ AtBroker => /\ cur \in touched /\ work[cur] # NoRow /\ qty \in Quantity
                 /\ work[cur].status = "Executing"
  /\ phase = "recovering" => cur \in CapitalProtection
  /\ \A o \in touched : due[o] # 0 /\ phase # "hung" => AtBroker /\ o = cur

\* Row locks: the scan's and the edits' exclude each other and protect the rows.
LocksOK ==
  /\ \A o \in touched : table[o] # NoRow /\ ~EditLocked(o)
  /\ \A o \in Orders : EditLocked(o) => table[o] # NoRow /\ o \in RuleBased
  /\ \A o \in Orders : txPlaced[o] <= placed[o] /\ (txPlaced[o] # 0 => o \in touched)

WatchOK(row, o) ==
  row # NoRow /\ row.status = "WatchingRecovery" => o \in CapitalProtection /\ row.executed
WatchesOK == \A o \in Orders : WatchOK(table[o], o) /\ WatchOK(work[o], o)

HistoryOK ==
  /\ HistoryOnce
  /\ cleared \subseteq created
  /\ \A o \in Orders : table[o] # NoRow => o \in created \ cleared
  /\ \A o \in Orders : placed[o] # 0 => o \in created

\* A row agrees with the n units the exchange has accepted: what was asked for is
\* placed or remains, and only an executed row has placed anything.
Agrees(row, o, n) ==
  row # NoRow =>
    /\ n + row.remaining = asked[o]
    /\ ~row.executed => n = 0
    /\ row.status # "WatchingRecovery" => row.remaining > 0

\* The committed row agrees with what earlier sessions placed, the session's row with
\* everything placed, but for the answer that is not recorded yet.
QuantityOK ==
  \A o \in (Orders \ RuleBased) \ (lost \cup unanswered \cup staleEdits) :
    /\ placed[o] <= asked[o]
    /\ Agrees(table[o], o, placed[o] - txPlaced[o])
    /\ phase # "hung" /\ o \in touched =>
         Agrees(work[o], o, placed[o] - (IF phase = "answered" /\ cur = o THEN qty ELSE 0))
    /\ AtBroker /\ cur = o => qty <= work[o].remaining

IInv ==
  TypeOK /\ SessionOK /\ LocksOK /\ WatchesOK /\ HistoryOK /\ QuantityOK
=============================================================================
