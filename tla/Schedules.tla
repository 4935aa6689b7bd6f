------------------------------ MODULE Schedules ------------------------------
(***************************************************************************)
(* Requests that make, change and refresh scheduled orders (main.py        *)
(* create_scheduled_order, add_order, update_scheduled_order, refresh_     *)
(* scheduled_order_references; custom_query_batch_schedule;                *)
(* screener_drop_schedule).  Each awaits the broker several times between  *)
(* its checks and its commit: the market moves and other requests run      *)
(* meanwhile.  A request works on one symbol, a batch on several at once,  *)
(* each in a database session of its own, a drop batch on several one      *)
(* after the other in a single session that is committed at the end.       *)
(***************************************************************************)
EXTENDS SchedulePreflight, TLC

CONSTANTS Requests, Symbols, Forms, Markets, FirstMarket, Lot, MaxEvents,
          Followers  \* requests that only refresh orders: a bound on who makes and changes some

\* A batch estimates the quantities of its symbols all at once, before it schedules them:
\* those of a purchase by quantity are the same at any time.  A drop batch buys.
ASSUME SchedulesAssumption ==
  /\ Lot \in Nat \ {0} /\ MaxEvents \in Nat /\ Followers \subseteq Requests
  /\ FirstMarket \in Markets /\ \A m \in Markets, s \in Symbols : m[s].held \in Nat
  /\ \A name \in DOMAIN Forms :
       LET f == Forms[name] IN
       /\ f.name = name /\ f.symbols # {} /\ f.symbols \subseteq Symbols
       /\ f.kind \in {"create", "add", "edit", "refresh", "batch", "drop"}
       /\ \A i \in DOMAIN f.plan.rules : i \in Nat /\ f.plan.rules[i].value \in Int
       /\ f.kind \in {"batch", "drop"} \/ \E s \in Symbols : f.symbols = {s}
       /\ f.kind \in {"batch", "drop"} => f.side = "buy"
       /\ f.kind = "batch" => \A rule \in RulesOf(f.plan) : rule.mode = "quantity"

\* An order is tried this often by a batch.
Attempts == 3

VARIABLES
  answers,   \* what the broker and Nepse Alpha answer now
  events,   \* how often it has changed or a call has failed
  rows,     \* the committed orders, by <<request, symbol, attempt>>
  job       \* what each request is doing
scheduleVars == <<answers, events, rows, job>>

\* The references of an order are rows of a table (refs), which a capture replaces and a
\* refresh changes, and a copy in its configuration (shown).  Who captured and refreshed them
\* is known by the ids of the rows, and for the properties; so is that a refresh was overtaken.
NoRow == [symbol |-> "", form |-> "", literal |-> 0, qty |-> 0, price |-> 0, reference |-> 0,
          trigger |-> 0, key |-> <<>>, refs |-> {}, shown |-> {}, edited |-> FALSE,
          captured |-> {}, refreshed |-> {}, overtaken |-> FALSE]
NewTask == [at |-> "queued", tries |-> 1, row |-> NoRow, error |-> ""]
NewJob == [stage |-> "idle", form |-> "", target |-> <<>>, saw |-> {}, steady |-> TRUE,
           task |-> [s \in Symbols |-> NewTask]]

FormOf(name) == Forms[name]
F(r) == FormOf(job[r].form)
Held == [s \in Symbols |-> answers[s].held]
Ended == {"done", "failed", "skipped"}

ScheduleInit ==
  /\ answers = FirstMarket /\ events = 0
  /\ rows = <<>>
  /\ job = [r \in Requests |-> NewJob]

-----------------------------------------------------------------------------
(* One request's symbol, and the row it is preparing.                      *)

At(r, s, stages) == job[r].stage = "running" /\ s \in F(r).symbols /\ job[r].task[s].at \in stages
Work(r, s) == job[r].task[s].row
TaskOf(r, s) == job[r].task[s]
Works(r, s, task, steady) == job' = [job EXCEPT ![r].task[s] = task, ![r].steady = job[r].steady /\ steady]
Step(r, s, at, row) == Works(r, s, [TaskOf(r, s) EXCEPT !.at = at, !.row = row], TRUE)
Failed(r, s, error) == [TaskOf(r, s) EXCEPT !.at = "failed", !.error = error]
Refuse(r, s, error) == Works(r, s, Failed(r, s, error), TRUE)
Commit(id, row) == rows' = [i \in DOMAIN rows \cup {id} |-> IF i = id THEN row ELSE rows[i]]

\* The quote, the preflight and the captures of a drop batch come in another order.
AfterPreflight(f) == IF f.kind = "drop" THEN "checks" ELSE "baseline"
NeedsPreflight(f) == HasPlan(f) /\ ~f.ready
FirstStage(f) ==
  CASE f.kind = "refresh" -> "references"
    [] f.kind = "drop" -> "queued"
    [] f.kind = "batch" \/ (f.kind \in {"create", "add", "edit"} /\ ~NeedsPreflight(f)) -> "baseline"
    [] OTHER -> "preflight"

\* The row of a new order.
DraftOf(f, s) ==
  [NoRow EXCEPT !.symbol = s, !.form = f.name, !.literal = f.level, !.qty = FormQuantity(f, s),
                !.price = f.price]
\* An edit and a refresh work on a row of their symbol.  The page edits the baseline of an
\* order that has one.
Targets(f) ==
  {id \in DOMAIN rows : rows[id].symbol \in f.symbols
     /\ (f.kind = "edit" => (f.base = "none") = (rows[id].reference = 0))}

\* An edit holds the lock of its row from its flush to its commit.  Whoever writes to the
\* row meanwhile stops the whole loop (OrderMonitor): here it does not take that step.
\* (A refresh that leaves the configuration as it is need not wait before the edit has
\* captured: what it writes the edit replaces, or has no use for.)
LocksRow(r, s) == F(r).kind = "edit" /\ At(r, s, {"references", "snapshot"})
Locked(r, s) == \E p \in Requests \ {r} : job[p].target = job[r].target /\ LocksRow(p, s)

\* What is refused before the first call.
RefusedAtOnce(f, s, target) ==
  \/ f.kind # "refresh" /\ f.kind # "drop" /\ FormErrors(f, Lot)
  \/ /\ f.kind \in {"create", "add", "edit"} /\ NeedsPreflight(f)
     /\ PlanStatus(f.plan, f.side, s) # "ready"
  \/ f.kind = "refresh" /\ (~HasPlan(FormOf(rows[target].form)) \/ rows[target].refs = {})

Begin(r, f, target) ==
  /\ job[r].stage = "idle"
  /\ r \in Followers => f.kind = "refresh"
  /\ IF f.kind \in {"edit", "refresh"} THEN target \in Targets(f) ELSE target = <<>>
  /\ job' = [job EXCEPT ![r] =
       [stage |-> IF f.kind = "batch" /\ NeedsPreflight(f) THEN "preflight" ELSE "running",
        form |-> f.name, target |-> target, saw |-> DOMAIN rows, steady |-> TRUE,
        task |-> [s \in Symbols |->
          IF s \notin f.symbols THEN NewTask
          ELSE IF RefusedAtOnce(f, s, target) THEN [NewTask EXCEPT !.at = "failed", !.error = "form"]
          ELSE [NewTask EXCEPT !.at = FirstStage(f),
                               !.row = IF f.kind = "refresh" THEN rows[target] ELSE DraftOf(f, s)]]]]
  /\ UNCHANGED <<answers, events, rows>>

\* A batch looks at all symbols of its plan at once; nothing is scheduled when one fails.
BatchPreflighted(r) ==
  /\ job[r].stage = "preflight"
  /\ LET gate == PlanStatus(F(r).plan, F(r).side, "")
         verdict == IF gate # "ready" THEN [status |-> gate, named |-> {}]
                    ELSE Preflight(F(r).plan, "", answers, Held, FALSE, F(r).drop)
         blamed == IF verdict.named = {} THEN F(r).symbols ELSE F(r).symbols \cap verdict.named
     IN job' = IF verdict.status = "ready" THEN [job EXCEPT ![r].stage = "running"]
               ELSE [job EXCEPT ![r].stage = "done",
                       ![r].task = [s \in Symbols |-> IF s \in blamed
                         THEN Failed(r, s, verdict.status) ELSE TaskOf(r, s)]]
  /\ UNCHANGED <<answers, events, rows>>

\* The next symbol of a drop batch: its baseline comes first.
NextSymbol(r, s) ==
  /\ At(r, s, {"queued"}) /\ F(r).kind = "drop"
  /\ \A t \in F(r).symbols : job[r].task[t].at \in Ended \cup {"queued", "flushed"}
  /\ Step(r, s, "baseline", Work(r, s))
  /\ UNCHANGED <<answers, events, rows>>

\* Whether the holdings can be read is a fault of their call alone: the checks of a sale
\* are then skipped.
Preflighted(r, s, readable) ==
  /\ At(r, s, {"preflight"})
  /\ readable \/ events < MaxEvents
  /\ LET f == F(r)
         gate == PlanStatus(f.plan, f.side, s)
         held == IF readable THEN Held ELSE [t \in Symbols |-> 0]
         plan == IF f.kind = "drop" THEN WithTrigger(f.plan, s) ELSE f.plan
         verdict == Preflight(plan, s, answers, held, f.base = "capture" /\ f.kind # "drop", f.drop)
     IN Works(r, s, IF gate = "ready" /\ verdict.status = "ready"
                      THEN [TaskOf(r, s) EXCEPT !.at = AfterPreflight(f)] ELSE Failed(r, s, "preflight"), readable)
  /\ events' = IF readable THEN events ELSE events + 1
  /\ UNCHANGED <<answers, rows>>

\* _apply_schedule_baseline_if_requested, and the capture of a drop batch: the row with its
\* baseline.  A plan with references keeps its own conditions; a baseline that was captured
\* before is kept unless the page asks for another.
Captures(f) ==
  \/ f.kind = "drop"
  \/ f.base = "capture" /\ ~PlanUsesReference(f.plan) /\ ~(f.flag = "recalc" /\ f.reference > 0)
WithBaseline(row, f, reference) ==
  [row EXCEPT !.reference = reference, !.trigger = Trigger(reference, f.drop), !.literal = Trigger(reference, f.drop)]
Based(f, row, q) ==
  IF Captures(f) THEN WithBaseline(row, f, q.ltp)
  ELSE IF f.base = "none" \/ PlanUsesReference(f.plan) THEN row
  ELSE WithBaseline(row, f, f.reference)

\* _scheduled_order_dedup_key: the form and the trigger its plan was compiled with.
KeyOf(f, row) == <<f.side, f.query, f.plan, f.price, FormQuantity(f, row.symbol), row.literal>>
MutantDuplicate(f, row) == \E id \in DOMAIN rows : rows[id].symbol = row.symbol /\ rows[id].key = KeyOf(f, row)
Duplicate(f, row) ==
  \E id \in DOMAIN rows :
    LET old == rows[id] IN
    /\ old.symbol = row.symbol
    /\ LET g == FormOf(old.form) IN g.side = f.side /\ HasPlan(g) = HasPlan(f)
    /\ \/ old.key = KeyOf(f, row)
       \/ old.price = row.price /\ old.qty = row.qty /\ FormOf(old.form).query = f.query

Baselined(r, s) ==
  /\ At(r, s, {"baseline"})
  /\ LET f == F(r)
         row == Based(f, Work(r, s), answers[s])
     IN CASE Captures(f) /\ ~BaselineAvailable(answers[s], f.drop) -> Refuse(r, s, "data")
          [] Captures(f) => BaselineAvailable(answers[s], f.drop) ->
               IF f.kind = "add" /\ Duplicate(f, row) THEN Step(r, s, "skipped", row)
               ELSE Step(r, s, IF f.kind = "drop" THEN "preflight" ELSE "checks", row)
  /\ UNCHANGED <<answers, events, rows>>

\* The checks against the broker that each kind of request makes.
CheckFails(f, s) ==
  CASE f.kind = "drop" -> FALSE
    [] f.kind = "batch" -> ~f.ready /\ LotErrors(f, s, answers[s].held, Lot)
    [] f.kind = "add" -> ~HasPlan(f) /\ (AboveHigh(f, answers[s]) \/ LotErrors(f, s, answers[s].held, Lot))
    [] OTHER -> AboveHigh(f, answers[s]) \/ LotErrors(f, s, answers[s].held, Lot)

\* update_from_request: the columns of the trigger change only at the request of a flag
\* that is still in the configuration after its compilation.  (Columns in which the form
\* agrees with what the edit read at its beginning are not written: they differ from these
\* when another edit changed them since.)
Updated(old, new, f) ==
  [new EXCEPT !.refs = old.refs, !.edited = TRUE,
     !.captured = old.captured, !.refreshed = old.refreshed, !.overtaken = old.overtaken,
     !.trigger = IF f.flag = "recalc" /\ ~Captures(f) THEN new.trigger ELSE old.trigger,
     !.reference = old.reference]

\* The last checks, and the insert or update: flushed, not yet committed.
Checked(r, s) ==
  /\ At(r, s, {"checks"})
  /\ LET f == F(r)
         row == IF f.kind = "edit" THEN Updated(rows[job[r].target], Work(r, s), f) ELSE Work(r, s)
     IN IF CheckFails(f, s) THEN Refuse(r, s, "check")
        ELSE /\ f.kind = "edit" => ~Locked(r, s)
             /\ Step(r, s, IF f.kind = "create" /\ Duplicate(f, row) THEN "skipped" ELSE "references", row)
  /\ UNCHANGED <<answers, events, rows>>

\* capture_and_attach_field_references: all of them or none, in rows of their own.
Captured(r, s, refs) ==
  [Work(r, s) EXCEPT !.refs = refs, !.shown = refs, !.captured = @ \cup {r}, !.overtaken = FALSE]
MutantReferenced(r, s) ==
  /\ At(r, s, {"references"}) /\ F(r).kind # "refresh"
  /\ Step(r, s, IF F(r).kind = "drop" THEN "flushed" ELSE "snapshot",
          Captured(r, s, {x \in CaptureReferences(ReferenceFields(F(r).plan, s), answers[s]) : x[3] # 0}))
  /\ UNCHANGED <<answers, events, rows>>
Referenced(r, s) ==
  /\ At(r, s, {"references"}) /\ F(r).kind # "refresh"
  /\ LET f == F(r)
         fields == ReferenceFields(f.plan, s)
         rest == IF f.kind = "drop" THEN "flushed" ELSE "snapshot"
         captured == CaptureReferences(fields, answers[s])
     IN CASE ~PlanUsesReference(f.plan) -> Step(r, s, rest, [Work(r, s) EXCEPT !.shown = {}])
          [] PlanUsesReference(f.plan) /\ Capturable(fields, answers[s]) ->
               Step(r, s, rest, Captured(r, s, captured))
          [] OTHER -> Refuse(r, s, "data")
  /\ UNCHANGED <<answers, events, rows>>

Pairs(refs) == {<<x[1], x[2]>> : x \in refs}
\* refresh_field_references, after its awaits: of the rows it read when it began it writes
\* those whose value is another now, and the configuration from its own copy of all of them
\* if that differs from the one it read.  Rows captured anew meanwhile are not found, which
\* fails; rows refreshed meanwhile it does not see.
Over(refs, changed) == {x \in refs : <<x[1], x[2]>> \notin Pairs(changed)} \cup changed
Fresh(now, read, changed, r) ==
  [now EXCEPT !.refs = Over(now.refs, changed), !.refreshed = @ \cup {r},
              !.overtaken = (now.refreshed # read.refreshed)]
Copied(now, read, mine) ==
  IF mine = read.shown THEN now
  ELSE [now EXCEPT !.shown = mine, !.form = read.form, !.literal = read.literal, !.key = read.key]
Refreshed(r, s) ==
  /\ At(r, s, {"references"}) /\ F(r).kind = "refresh"
  /\ LET read == Work(r, s)
         now == rows[job[r].target]
         chosen == {x \in read.refs : F(r).scope = {} \/ x[2] \in F(r).scope}
         fields == Pairs(chosen)
         changed == CaptureReferences(fields, answers[s]) \ read.refs
     IN IF chosen = {} \/ ~Capturable(fields, answers[s]) THEN Refuse(r, s, "data") /\ UNCHANGED rows
        ELSE /\ ~Locked(r, s)
             /\ IF now.captured # read.captured THEN Refuse(r, s, "stale") /\ UNCHANGED rows
                ELSE /\ Step(r, s, "done", NoRow)
                     /\ Commit(job[r].target,
                               Copied(Fresh(now, read, changed, r), read, Over(read.refs, changed)))
  /\ UNCHANGED <<answers, events>>

\* apply_schedule_preview_snapshot: the estimate of the preview becomes the quantity.
Snapshot(f, row, q, readable) ==
  IF ~HasPlan(f) THEN row
  ELSE [row EXCEPT !.qty = IfGiven(EstimatedQuantity(f, row.symbol, q, readable), @),
                   !.trigger = IfGiven(@, f.level)]
RowId(r, s) == IF F(r).kind = "edit" THEN job[r].target ELSE <<r, s, job[r].task[s].tries>>
Keyed(f, row) == [row EXCEPT !.key = KeyOf(f, row)]

Saved(r, s, readable) ==
  /\ At(r, s, {"snapshot"})
  /\ readable \/ (F(r).side = "sell" /\ events < MaxEvents)
  /\ Commit(RowId(r, s), Snapshot(F(r), Keyed(F(r), Work(r, s)), answers[s], readable))
  /\ Works(r, s, [TaskOf(r, s) EXCEPT !.at = "done", !.row = NoRow], readable)
  /\ events' = IF readable THEN events ELSE events + 1
  /\ UNCHANGED answers

\* The session of a drop batch: its flushed rows, those of symbols it reports failed
\* included, are committed when it scheduled any.
DropCommit(r) ==
  /\ job[r].stage = "running" /\ F(r).kind = "drop"
  /\ \A s \in F(r).symbols : job[r].task[s].at \in Ended \cup {"flushed", "stray"}
  /\ LET flushed == {s \in F(r).symbols : job[r].task[s].at \in {"flushed", "stray"}}
         made == {<<r, s, 1>> : s \in IF \E s \in flushed : job[r].task[s].at = "flushed" THEN flushed ELSE {}}
     IN /\ rows' = [id \in DOMAIN rows \cup made |-> IF id \in made THEN Work(r, id[2]) ELSE rows[id]]
        /\ job' = [job EXCEPT ![r].stage = "done",
             ![r].task = [s \in Symbols |-> [TaskOf(r, s) EXCEPT !.row = NoRow,
                !.at = CASE @ = "flushed" -> "done" [] @ = "stray" -> "failed" [] OTHER -> @]]]
  /\ UNCHANGED <<answers, events>>

-----------------------------------------------------------------------------
(* Failures of calls, and the market.                                      *)

\* A call fails.  A batch tries the symbol again when the error looks transient; a drop
\* batch leaves the row it has flushed in its session.
AfterFault(r, s, transient) ==
  LET task == TaskOf(r, s) IN
  CASE F(r).kind = "batch" /\ transient /\ task.tries < Attempts ->
         [task EXCEPT !.at = "baseline", !.tries = task.tries + 1, !.row = DraftOf(F(r), s)]
    [] F(r).kind = "drop" /\ task.at = "references" -> [task EXCEPT !.at = "stray", !.error = "fault"]
    [] OTHER -> Failed(r, s, "fault")
Fault(r, s, transient) ==
  /\ At(r, s, {"preflight", "baseline", "checks", "references"})
  /\ events < MaxEvents
  /\ events' = events + 1
  /\ Works(r, s, AfterFault(r, s, transient), FALSE)
  /\ UNCHANGED <<answers, rows>>

\* The answer to a commit is lost; the row may have been committed.
CommitFault(r, s, made) ==
  /\ At(r, s, {"snapshot"})
  /\ events < MaxEvents
  /\ events' = events + 1
  /\ Works(r, s, AfterFault(r, s, TRUE), FALSE)
  /\ IF made THEN Commit(RowId(r, s), Snapshot(F(r), Keyed(F(r), Work(r, s)), answers[s], TRUE)) ELSE UNCHANGED rows
  /\ UNCHANGED answers

Move(m) ==
  /\ events < MaxEvents /\ m # answers
  /\ answers' = m /\ events' = events + 1
  /\ job' = [r \in Requests |-> [job[r] EXCEPT !.steady = @ /\ job[r].stage = "idle"]]
  /\ UNCHANGED rows

ScheduleNext ==
  \/ \E r \in Requests, name \in DOMAIN Forms, target \in DOMAIN rows \cup {<<>>} : Begin(r, Forms[name], target)
  \/ \E r \in Requests : BatchPreflighted(r) \/ DropCommit(r)
  \/ \E r \in Requests, s \in Symbols :
       \/ NextSymbol(r, s) \/ Baselined(r, s) \/ Checked(r, s) \/ Referenced(r, s) \/ Refreshed(r, s)
       \/ \E b \in BOOLEAN : Preflighted(r, s, b) \/ Saved(r, s, b) \/ Fault(r, s, b) \/ CommitFault(r, s, b)
  \/ \E m \in Markets : Move(m)

ScheduleSpec == ScheduleInit /\ [][ScheduleNext]_scheduleVars

-----------------------------------------------------------------------------
(* Properties.                                                             *)

\* Types: a task is at a stage of its kind, an order is of a symbol of its form.
Stages == {"queued", "preflight", "baseline", "checks", "references", "snapshot", "flushed", "stray"} \cup Ended
ScheduleTypeOK ==
  /\ answers \in Markets /\ events \in 0..MaxEvents
  /\ \A r \in Requests :
       /\ job[r].stage \in {"idle", "preflight", "running", "done"}
       /\ \A s \in Symbols : job[r].task[s].at \in Stages /\ job[r].task[s].tries \in 1..Attempts
  /\ \A id \in DOMAIN rows : rows[id].symbol = id[2] /\ id[2] \in FormOf(rows[id].form).symbols

\* A request to create an order that another already made when it began makes no second
\* one, whatever the market did to the trigger or the preview to the quantity meanwhile.
\* The same order is recognised by its quantity, unless the preview replaces it by what an
\* amount of money buys or a share of the holding is; or by its trigger, unless one of the
\* two captured it.
Asks(id) == FormOf(rows[id].form)
SameRequest(f, g) ==
  f.query = g.query /\ f.plan = g.plan /\ f.side = g.side /\ f.price = g.price /\ f.qty = g.qty
StableQuantity(f, s) ==
  \A m \in Markets, b \in BOOLEAN : EstimatedQuantity(f, s, m[s], b) \in {0, FormQuantity(f, s)}
Level(f) == IF f.base = "none" \/ PlanUsesReference(f.plan) THEN f.level ELSE Trigger(f.reference, f.drop)
SameTrigger(f, g) == ~Captures(f) /\ ~Captures(g) /\ Level(f) = Level(g)
Second(f, s, old) ==
  LET g == FormOf(old.form) IN
  /\ ~old.edited /\ old.symbol = s /\ SameRequest(f, g)
  /\ StableQuantity(g, s) \/ SameTrigger(f, g)
NoSecondOrder ==
  \A id \in DOMAIN rows : Asks(id).kind \in {"create", "add"} /\ ~rows[id].edited
    => \A old \in job[id[1]].saw \ {id} : ~Second(Asks(id), rows[id].symbol, rows[old])

\* Every committed order whose plan reads references has all of them for its symbol, in the
\* configuration the monitor reads and in the table a refresh starts from, with the same
\* values unless the last refresh was overtaken by another that it had not read.
\* (Not the orders a drop batch reports failed.)
Reported(id) == job[id[1]].task[id[2]].at = "failed" /\ F(id[1]).kind = "drop"
ReferencesCover ==
  \A id \in DOMAIN rows :
    PlanUsesReference(Asks(id).plan) /\ ~Reported(id)
      => /\ Pairs(rows[id].shown) = ReferenceFields(Asks(id).plan, rows[id].symbol)
         /\ Pairs(rows[id].refs) = Pairs(rows[id].shown)
         /\ rows[id].refs = rows[id].shown \/ rows[id].overtaken

\* A query that says how much to sell is scheduled only when that is held, in an account
\* that holds anything, when nothing changed or failed while the request was at work.
SellsQuantity(f, s) ==
  /\ f.side = "sell" /\ NeedsPreflight(f) /\ RuleFor(f.plan, s) # {}
  /\ FirstRule(f.plan, s).mode = "quantity" /\ FirstRule(f.plan, s).value > 0
SoldFromHolding ==
  [][\A id \in DOMAIN rows' \ DOMAIN rows :
       SellsQuantity(FormOf(rows'[id].form), id[2]) /\ job[id[1]].steady /\ job'[id[1]].steady
         /\ (\E t \in Symbols : answers[t].held > 0)
         => rows'[id].qty <= answers[id[2]].held]_scheduleVars
\* "Cannot schedule SELL: no sellable DP holding": no sale is scheduled of what is not held.
SellNeedsHolding ==
  [][\A id \in DOMAIN rows' \ DOMAIN rows :
       FormOf(rows'[id].form).side = "sell" /\ job[id[1]].steady /\ job'[id[1]].steady => answers[id[2]].held > 0]_scheduleVars
=============================================================================
