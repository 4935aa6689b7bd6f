--------------------------- MODULE Accounts_proofs ---------------------------
(***************************************************************************)
(* Proofs about Accounts, for any number of overlapping logins, any        *)
(* passwords and any faults.                                               *)
(***************************************************************************)
EXTENDS Accounts, TLAPS

\* What a coroutine may be, by its place: only the task begins and collects, only a page and a
\* deletion end, and who changes a password changes it to a later one.
Shape(e) ==
  /\ e.at = "idle" <=> e.kind = "none"
  /\ e.at \in {"begin", "collateral"} => e.kind = "task"
  /\ e.at = "ending" => e.kind \in {"page", "delete"}
  /\ e.kind = "delete" => e.at = "ending"
  /\ e.at = "change" => e.pw < e.n
  /\ e.at \notin {"idle", "begin", "ending"} => e.pw # 0
Good == {e \in Flow : Shape(e)}

\* Tasks, the registered one, and a row that says "logging_in": a deleted account has one
\* of the two at most.
Tasks ==
  /\ flow \in [Flows -> Good] /\ registered \in Flows \cup {NoFlow}
  /\ PendingHasTask
  /\ saved = 0 /\ HasTask => row.status # "logging_in"

\* Every rotation without a fault is in the backups.
Remembered ==
  /\ faults = 0 /\ rotations > 0 => broker \in backups
  /\ rotations = 0 => broker = 1
  /\ rotations < broker

Data ==
  /\ saved \in 0..MaxPassword /\ row \in Row /\ cached \in 0..MaxPassword
  /\ backups \subseteq Passwords /\ broker \in Passwords
  /\ due \in BOOLEAN /\ restarted \in BOOLEAN /\ revived \in BOOLEAN
  /\ rotating \in Flows \cup {NoFlow} /\ full \in Flows \cup {NoFlow}
  /\ faults \in 0..MaxFaults /\ rotations \in Nat

IInv == Tasks /\ Remembered /\ Data

\* A coroutine that has ended.
LEMMA IdleGood == Idle \in Good
BY ConstantsAssumption DEF Idle, Good, Flow, Shape, Kinds

\* A task that was queued.
LEMMA QueuedGood ==
  /\ [Idle EXCEPT !.kind = "task", !.at = "begin"] \in Good
  /\ [Idle EXCEPT !.kind = "task", !.at = "begin"].kind = "task"
BY IdleGood DEF Idle, Good, Flow, Shape, Kinds

\* ... and a deletion that waits.
LEMMA DeletionGood ==
  /\ [Idle EXCEPT !.kind = "delete", !.at = "ending"] \in Good
  /\ [Idle EXCEPT !.kind = "delete", !.at = "ending"].kind = "delete"
BY IdleGood DEF Idle, Good, Flow, Shape, Kinds

\* Nobody logs in at first.
LEMMA InductiveInit == Init => IInv
<1> SUFFICES ASSUME Init PROVE IInv
  OBVIOUS
<1>1. Data
  <2>1. row \in Row
    BY DEF Init, Row, NoRow, LoggedOut
  <2>2. due \in BOOLEAN /\ restarted \in BOOLEAN /\ revived \in BOOLEAN
    BY DEF Init
  <2>3. QED
    BY <2>1, <2>2, ConstantsAssumption DEF Init, Data, Passwords
<1>2. Remembered
  BY DEF Init, Remembered
<1>3. flow \in [Flows -> Good]
  BY IdleGood DEF Init
<1>4. OneTask
  BY ConstantsAssumption DEF Init, OneTask, Kind, Idle
<1>5. QED
  BY <1>1, <1>2, <1>3, <1>4 DEF Init, IInv, Tasks, PendingHasTask, NoRow

\* What a step makes of the coroutine f and of the row: it goes on as what it is, begins or
\* ends as something that is no task, is queued as the task, was the task and ends, or writes
\* the row of a deleted account.
Quiet == row'.status = "logging_in" => row.status = "logging_in"
Plain(e) == e.kind \notin {"task", "delete"}
Outcome(f, e) ==
  /\ flow' = [flow EXCEPT ![f] = e]
  /\ \/ e.kind = Kind(f) /\ registered' = registered /\ Quiet
     \/ Plain(flow[f]) /\ Plain(e) /\ registered' = registered /\ Quiet
     \/ Plain(flow[f]) /\ e.kind = "task" /\ registered = NoFlow /\ registered' = f /\ saved' # 0
     \/ Kind(f) = "task" /\ Plain(e) /\ registered' = NoFlow /\ row'.status # "logging_in"
     \/ Plain(flow[f]) /\ Plain(e) /\ registered = NoFlow /\ registered' = NoFlow /\ revived'

\* Such a step keeps the tasks.
LEMMA OutcomeKeeps ==
  ASSUME Tasks, NEW f \in Flows, NEW e \in Good, Outcome(f, e),
         \/ restarted' = restarted /\ (revived => revived')
         \/ row'.status = "logging_in" => registered' # NoFlow,
         saved' = saved \/ saved' # 0
  PROVE  Tasks'
<1>1. flow' \in [Flows -> Good] /\ \A g \in Flows : flow'[g] = IF g = f THEN e ELSE flow[g]
  BY DEF Outcome, Tasks
<1>2. f # NoFlow
  BY ConstantsAssumption
<1>3. registered' \in Flows \cup {NoFlow}
  BY DEF Outcome, Tasks
<1>4. OneTask'
  <2> SUFFICES ASSUME NEW g \in Flows PROVE flow'[g].kind = "task" <=> registered' = g
    BY DEF OneTask, Kind
  <2>1. \A h \in Flows : flow[h].kind = "task" <=> registered = h
    BY DEF Tasks, PendingHasTask, OneTask, Kind
  <2>2. \/ e.kind = flow[f].kind /\ registered' = registered
        \/ flow[f].kind # "task" /\ e.kind # "task" /\ registered' = registered
        \/ e.kind = "task" /\ registered = NoFlow /\ registered' = f
        \/ flow[f].kind = "task" /\ e.kind # "task" /\ registered' = NoFlow
    BY DEF Outcome, Kind, Plain
  <2>3. flow'[g] = IF g = f THEN e ELSE flow[g]
    BY <1>1
  <2>4. g # NoFlow
    BY ConstantsAssumption
  <2>5. QED
    BY <1>2, <2>1, <2>2, <2>3, <2>4
<1>5. Deleting /\ (e.kind = Kind(f) \/ Kind(f) # "delete") => Deleting'
  BY <1>1 DEF Deleting, Kind
<1>6. row'.status = "logging_in" => HasTask' \/ Deleting' \/ restarted' \/ revived'
  BY <1>2, <1>5 DEF Outcome, Tasks, PendingHasTask, Quiet, HasTask, Plain, Kind
<1>7. saved' = 0 /\ HasTask' => row'.status # "logging_in"
  BY DEF Outcome, Tasks, Quiet, HasTask
<1>8. QED
  BY <1>1, <1>3, <1>4, <1>6, <1>7 DEF Tasks, PendingHasTask
-----------------------------------------------------------------------------
(* What the parts of a login make of their coroutine.                      *)

\* Queueing an account that exists, from a page or by hand.
LEMMA PageEndsOutcome ==
  ASSUME Tasks, Data, NEW f \in Flows, Plain(flow[f]),
         NEW r \in Row, r.status = "logging_in" => row.status = "logging_in",
         NEW force \in BOOLEAN, PageEnds(f, r, force), saved' = saved
  PROVE  row' \in Row /\ \E e \in Good : Outcome(f, e)
<1> DEFINE queued == [Idle EXCEPT !.kind = "task", !.at = "begin"]
<1>1. queued \in Good /\ queued.kind = "task" /\ Plain(Idle) /\ Idle \in Good
  BY QueuedGood, IdleGood DEF Idle, Plain
<1>2. CASE row' = r /\ flow' = [flow EXCEPT ![f] = Idle] /\ UNCHANGED registered
  BY <1>1, <1>2 DEF Outcome, Quiet
<1>3. CASE /\ saved # 0 /\ registered = NoFlow /\ row' = [r EXCEPT !.status = "logging_in"]
           /\ flow' = [flow EXCEPT ![f] = queued] /\ registered' = f
  <2>1. row' \in Row
    BY <1>3 DEF Row
  <2>2. QED
    BY <1>1, <1>3, <2>1 DEF Outcome
<1>4. QED
  BY <1>2, <1>3 DEF PageEnds, Queue, HasTask

\* The coroutine of a login that begins.
LEMMA EnteredGood ==
  ASSUME NEW e \in Flow, e.pw # 0, e.kind \in {"task", "page", "form", "all", "monitor"},
         NEW point \in {"rotate", "validate", "full"}, NEW stage \in {"stored", "full"}
  PROVE  /\ [e EXCEPT !.at = point] \in Good /\ [e EXCEPT !.at = point].kind = e.kind
         /\ [e EXCEPT !.at = point, !.stage = stage] \in Good
         /\ [e EXCEPT !.at = point, !.stage = stage].kind = e.kind
BY DEF Flow, Good, Shape

\* Entering with a stored session, or by the full login.
LEMMA EnterOutcome ==
  ASSUME NEW f \in Flows, NEW kind \in {"task", "page", "form", "all", "monitor"},
         NEW p \in Passwords, Enter(f, kind, p)
  PROVE  \E e \in Good : e.kind = kind /\ flow' = [flow EXCEPT ![f] = e]
<1>1. PICK x \in BOOLEAN : x = (row.tokens = "stale")
  OBVIOUS
<1> DEFINE e == [Idle EXCEPT !.kind = kind, !.pw = p, !.expired = x]
<1>2. \/ flow' = [flow EXCEPT ![f] = [e EXCEPT !.at = "rotate"]]
      \/ flow' = [flow EXCEPT ![f] = [e EXCEPT !.at = "validate"]]
      \/ flow' = [flow EXCEPT ![f] = [e EXCEPT !.at = "full", !.stage = "full"]]
  BY <1>1 DEF Enter, AfterSession
<1>3. Idle \in Flow
  BY IdleGood DEF Good
<1>4. e \in Flow /\ e.kind = kind /\ e.pw # 0
  <2>1. p \in 0..MaxPassword /\ p # 0
    BY ConstantsAssumption DEF Passwords
  <2>2. QED
    BY <1>3, <2>1 DEF Flow, Kinds
<1> HIDE DEF e
<1>5. QED
  BY <1>2, <1>4, EnteredGood

\* A login that fails, and one that goes to its next stage.
LEMMA FailsOutcome ==
  ASSUME Tasks, Data, NEW f \in Flows, flow[f].kind # "delete", Fails(f), saved' = saved
  PROVE  row' \in Row /\ \E e \in Good : Outcome(f, e)
<1>1. CASE Kind(f) = "page"
  <2>1. (Revives(f) \/ PageEnds(f, row, TRUE)) /\ Plain(flow[f]) /\ row \in Row
    BY <1>1 DEF Fails, Plain, Kind, Data
  <2>2. CASE PageEnds(f, row, TRUE)
    BY <2>1, <2>2, PageEndsOutcome
  <2>3. CASE Revives(f)
    <3>1. Plain(Idle) /\ Idle \in Good
      BY IdleGood DEF Plain, Idle
    <3>2. row' \in Row
      BY <2>1, <2>3 DEF Revives, Row
    <3>3. QED
      BY <2>1, <2>3, <3>1, <3>2 DEF Revives, Outcome, HasTask
  <2>4. QED
    BY <2>1, <2>2, <2>3
<1>2. CASE Kind(f) # "page"
  <2>1. /\ flow' = [flow EXCEPT ![f] = Idle] /\ Unregister(f)
        /\ row' = LoggedOut \/ (row' = row /\ Kind(f) # "task")
    BY <1>2 DEF Fails
  <2>2. row' \in Row /\ Quiet
    BY <2>1 DEF Data, Row, LoggedOut, Quiet
  <2>3. Plain(Idle) /\ Idle \in Good
    BY IdleGood DEF Plain, Idle
  <2>4. CASE Kind(f) = "task"
    <3>1. registered' = NoFlow /\ row'.status # "logging_in"
      BY <2>1, <2>4 DEF Unregister, Tasks, PendingHasTask, OneTask, LoggedOut
    <3>2. QED
      BY <2>1, <2>2, <2>3, <2>4, <3>1 DEF Outcome
  <2>5. CASE Kind(f) # "task"
    <3>1. registered' = registered
      BY <2>1, <2>5 DEF Unregister, Tasks, PendingHasTask, OneTask
    <3>2. Plain(flow[f])
      BY <2>5 DEF Plain, Kind
    <3>3. QED
      BY <2>1, <2>2, <2>3, <3>1, <3>2 DEF Outcome
  <2>6. QED
    BY <2>4, <2>5
<1>3. QED
  BY <1>1, <1>2

\* A coroutine that goes on elsewhere in its login.
LEMMA GoesOn ==
  ASSUME Tasks, Data, NEW f \in Flows, NEW e \in Flow, e.kind = flow[f].kind,
         flow[f].kind \notin {"none", "delete"},
         e.at \in {"rotate", "change", "validate", "refresh", "full", "login"},
         e.at = "change" => e.pw < e.n, e.pw # 0,
         flow' = [flow EXCEPT ![f] = e], registered' = registered, Quiet
  PROVE  e \in Good /\ Outcome(f, e)
BY DEF Good, Shape, Outcome, Kind

\* A coroutine under way, that is neither idle nor a deletion.
LEMMA UnderWay ==
  ASSUME Tasks, NEW f \in Flows, flow[f].at \notin {"idle", "begin", "ending"}
  PROVE  /\ flow[f] \in Flow /\ Shape(flow[f])
         /\ flow[f].kind \notin {"none", "delete"} /\ flow[f].pw # 0
BY DEF Tasks, Good, Shape

\* The full login, or the failure where it is not allowed.
LEMMA ToFullOutcome ==
  ASSUME Tasks, Data, NEW f \in Flows, flow[f].at \notin {"idle", "begin", "ending"}, ToFull(f), saved' = saved
  PROVE  row' \in Row /\ \E e \in Good : Outcome(f, e)
<1>1. flow[f] \in Flow /\ flow[f].kind \notin {"none", "delete"} /\ flow[f].pw # 0
  BY UnderWay
<1>2. CASE Fails(f)
  BY <1>1, <1>2, FailsOutcome
<1>3. CASE ~Fails(f)
  <2> DEFINE e == [flow[f] EXCEPT !.at = "full", !.stage = "full"]
  <2>1. flow' = [flow EXCEPT ![f] = e] /\ row' = row /\ registered' = registered
    BY <1>3 DEF ToFull, Tasks
  <2>2. e \in Flow /\ e.kind = flow[f].kind /\ e.pw # 0 /\ e.at = "full"
    BY <1>1 DEF Flow
  <2>3. Quiet /\ row' \in Row
    BY <2>1 DEF Quiet, Data
  <2> HIDE DEF e
  <2>4. QED
    BY <1>1, <2>1, <2>2, <2>3, GoesOn
<1>4. QED
  BY <1>2, <1>3

\* What follows an exception in any stage.
LEMMA NextStageOutcome ==
  ASSUME Tasks, Data, NEW f \in Flows, flow[f].at \notin {"idle", "begin", "ending"}, NextStage(f), saved' = saved
  PROVE  row' \in Row /\ \E e \in Good : Outcome(f, e)
<1>1. flow[f] \in Flow /\ flow[f].kind \notin {"none", "delete"} /\ flow[f].pw # 0
  BY UnderWay
<1>2. flow[f].stage \in {"stored", "refreshed", "full"}
  BY <1>1 DEF Flow
<1>3. CASE flow[f].stage = "stored"
  <2> DEFINE e == [flow[f] EXCEPT !.at = "refresh"]
  <2>1. flow' = [flow EXCEPT ![f] = e] /\ row' = row /\ registered' = registered
    BY <1>3 DEF NextStage, Go, Tasks
  <2>2. e \in Flow /\ e.kind = flow[f].kind /\ e.pw # 0 /\ e.at = "refresh"
    BY <1>1 DEF Flow
  <2>3. Quiet /\ row' \in Row
    BY <2>1 DEF Quiet, Data
  <2> HIDE DEF e
  <2>4. QED
    BY <1>1, <2>1, <2>2, <2>3, GoesOn
<1>4. CASE flow[f].stage = "refreshed"
  BY <1>4, ToFullOutcome DEF NextStage
<1>5. CASE flow[f].stage = "full"
  BY <1>1, <1>5, FailsOutcome DEF NextStage
<1>6. QED
  BY <1>2, <1>3, <1>4, <1>5
-----------------------------------------------------------------------------
(* The steps.                                                              *)

\* The steps of a login.
LEMMA LoginOutcome ==
  ASSUME IInv, NEW f \in Flows, LoginStep(f)
  PROVE  /\ row' \in Row /\ \E e \in Good : Outcome(f, e)
         /\ saved' = saved \/ saved' # 0
<1> USE DEF IInv
<1>a. flow[f] \in Flow /\ Shape(flow[f]) /\ row \in Row
  BY DEF Tasks, Good, Data
<1>b. Kind(f) = "task" <=> registered = f
  BY DEF Tasks, PendingHasTask, OneTask
<1>c. Idle \in Good /\ Plain(Idle)
  BY IdleGood DEF Plain, Idle
<1>d. row' = row => Quiet /\ row' \in Row
  BY <1>a DEF Quiet
<1>1. CASE TaskStarts(f)
  <2>1. flow[f].kind = "task" /\ row' = row /\ saved' = saved
    BY <1>1, <1>a DEF TaskStarts, At, Shape
  <2>2. CASE saved = 0
    <3>1. flow' = [flow EXCEPT ![f] = Idle] /\ registered' = NoFlow /\ row.status # "logging_in"
      BY <1>1, <1>b, <2>1, <2>2, ConstantsAssumption DEF TaskStarts, Unregister, Tasks, Kind, HasTask
    <3>2. QED
      BY <1>c, <1>d, <2>1, <3>1 DEF Outcome, Kind
  <2>3. CASE saved # 0
    <3>1. Enter(f, "task", saved) /\ saved \in Passwords /\ registered' = registered
      BY <1>1, <2>3 DEF TaskStarts, Data, Passwords
    <3>2. PICK e \in Good : e.kind = "task" /\ flow' = [flow EXCEPT ![f] = e]
      BY <3>1, EnterOutcome
    <3>3. Outcome(f, e)
      BY <1>d, <2>1, <3>1, <3>2 DEF Outcome, Kind
    <3>4. QED
      BY <1>d, <2>1, <3>3
  <2>4. QED
    BY <2>2, <2>3
<1>2. CASE Broken(f)
  <2>1. saved' = saved
    BY <1>2 DEF Broken
  <2>2. CASE NextStage(f) /\ At(f, "validate")
    BY <2>1, <2>2, NextStageOutcome DEF At
  <2>3. CASE ToFull(f) /\ At(f, "refresh")
    BY <2>1, <2>3, ToFullOutcome DEF At
  <2>4. CASE Fails(f) /\ flow[f].at \in {"login", "refresh"}
    BY <1>a, <2>1, <2>4, FailsOutcome DEF Shape
  <2>5. CASE Kind(f) = "request" /\ flow' = [flow EXCEPT ![f] = Idle] /\ UNCHANGED <<row, registered>>
    BY <1>c, <1>d, <2>1, <2>5 DEF Outcome, Plain, Kind
  <2>6. QED
    BY <1>2, <2>2, <2>3, <2>4, <2>5 DEF Broken, At
<1>3. CASE Refreshed(f)
  <2> DEFINE e == [flow[f] EXCEPT !.stage = "refreshed", !.at =
                     IF Kind(f) = "request" THEN "validate" ELSE AfterSession(f, flow[f])]
  <2>1. flow[f].kind \notin {"none", "delete"} /\ flow[f].pw # 0
    BY <1>3, UnderWay DEF Refreshed, At
  <2>2. AfterSession(f, flow[f]) \in {"rotate", "validate"}
    BY DEF AfterSession
  <2>3. e \in Flow /\ e.kind = flow[f].kind /\ e.pw # 0 /\ e.at \in {"rotate", "validate"}
    BY <1>a, <2>1, <2>2 DEF Flow
  <2>4. flow' = [flow EXCEPT ![f] = e] /\ registered' = registered /\ row' = Stored(row, f) /\ saved' = saved
    BY <1>3 DEF Refreshed, Tasks
  <2>5. Quiet /\ row' \in Row
    BY <2>4 DEF Quiet, Stored, Row
  <2> HIDE DEF e
  <2>6. QED
    BY <2>1, <2>3, <2>4, <2>5, GoesOn
<1>4. CASE FullLogin(f)
  <2> DEFINE e == [flow[f] EXCEPT !.at = "login"]
  <2>1. flow[f].kind \notin {"none", "delete"} /\ flow[f].pw # 0
    BY <1>4, UnderWay DEF FullLogin, At
  <2>2. e \in Flow /\ e.kind = flow[f].kind /\ e.pw # 0 /\ e.at = "login"
    BY <1>a, <2>1 DEF Flow
  <2>3. flow' = [flow EXCEPT ![f] = e] /\ registered' = registered /\ row' = row /\ saved' = saved
    BY <1>4 DEF FullLogin, Go, Tasks
  <2> HIDE DEF e
  <2>4. QED
    BY <1>d, <2>1, <2>2, <2>3, GoesOn
<1>5. CASE LoggedIn(f)
  <2> DEFINE e == [flow[f] EXCEPT !.expired = due, !.at = IF due THEN "rotate" ELSE "validate"]
  <2>1. flow[f].kind \notin {"none", "delete"} /\ flow[f].pw # 0 /\ due \in BOOLEAN
    BY <1>5, UnderWay DEF LoggedIn, At, Data
  <2>2. e \in Flow /\ e.kind = flow[f].kind /\ e.pw # 0 /\ e.at \in {"rotate", "validate"}
    BY <1>a, <2>1 DEF Flow
  <2>3. flow' = [flow EXCEPT ![f] = e] /\ registered' = registered /\ row' = row /\ saved' = saved
    BY <1>5 DEF LoggedIn, Tasks
  <2> HIDE DEF e
  <2>4. QED
    BY <1>d, <2>1, <2>2, <2>3, GoesOn
<1>6. CASE Validated(f)
  <2>1. flow[f].kind \notin {"none", "delete"} /\ flow[f].pw # 0
    BY <1>6, UnderWay DEF Validated, At
  <2>2. saved' = saved \/ saved' # 0
    BY <1>6, <2>1 DEF Validated
  <2>3. registered' = registered /\ (row' = row \/ row' = Stored(row, f))
    BY <1>6 DEF Validated
  <2>4. Quiet /\ row' \in Row
    BY <1>d, <2>3 DEF Quiet, Stored, Row
  <2>5. CASE Kind(f) \in {"task", "page"}
    <3> DEFINE e(point) == [flow[f] EXCEPT !.at = point]
    <3>1. flow' = [flow EXCEPT ![f] = IF Kind(f) = "task" THEN e("collateral") ELSE e("ending")]
      BY <1>6, <2>5 DEF Validated
    <3>2. /\ Kind(f) = "task" => e("collateral") \in Good /\ e("collateral").kind = Kind(f)
          /\ Kind(f) = "page" => e("ending") \in Good /\ e("ending").kind = Kind(f)
      BY <1>a, <2>1 DEF Flow, Good, Shape, Kind
    <3> HIDE DEF e
    <3>3. QED
      BY <2>2, <2>3, <2>4, <2>5, <3>1, <3>2 DEF Outcome
  <2>6. CASE Kind(f) \notin {"task", "page"}
    <3>1. flow' = [flow EXCEPT ![f] = Idle]
      BY <1>6, <2>6 DEF Validated
    <3>2. Plain(flow[f])
      BY <2>1, <2>6 DEF Plain, Kind
    <3>3. QED
      BY <1>c, <2>2, <2>3, <2>4, <3>1, <3>2 DEF Outcome
  <2>7. QED
    BY <2>5, <2>6
<1>7. CASE Listed(f)
  <2>1. PageEnds(f, row, FALSE) /\ Plain(flow[f]) /\ saved' = saved
    BY <1>7 DEF Listed, Plain, Kind
  <2>2. QED
    BY <1>a, <2>1, PageEndsOutcome
<1>8. CASE TaskEnds(f)
  <2>1. Kind(f) = "task" /\ row' = [row EXCEPT !.status = "logged_in"] /\ saved' = saved
        /\ flow' = [flow EXCEPT ![f] = Idle]
    BY <1>8, <1>a DEF TaskEnds, At, Shape, Kind
  <2>2. registered' = NoFlow /\ row' \in Row /\ row'.status # "logging_in"
    BY <1>8, <1>a, <1>b, <2>1 DEF TaskEnds, Unregister, Row
  <2>3. QED
    BY <1>c, <2>1, <2>2 DEF Outcome
<1>9. CASE Rotate(f)
  <2>1. flow[f].kind \notin {"none", "delete"} /\ flow[f].pw # 0 /\ saved' = saved /\ flow[f].at = "rotate"
    BY <1>9, UnderWay DEF Rotate, At
  <2>2. CASE Known(f)
    <3> DEFINE e == [flow[f] EXCEPT !.pw = saved, !.at = "validate"]
    <3>1. e \in Flow /\ e.kind = flow[f].kind /\ e.pw # 0 /\ e.at = "validate"
      BY <1>a, <2>2 DEF Flow, Known, Data
    <3>2. flow' = [flow EXCEPT ![f] = e] /\ registered' = registered /\ row' = row
      BY <1>9, <2>2 DEF Rotate, Tasks
    <3> HIDE DEF e
    <3>3. QED
      BY <1>d, <2>1, <3>1, <3>2, GoesOn
  <2>3. CASE ~Known(f) /\ flow[f].pw < MaxPassword
    <3> DEFINE e == [flow[f] EXCEPT !.n = flow[f].pw + 1, !.at = "change"]
    <3>1. flow[f].pw + 1 \in 0..MaxPassword /\ flow[f].pw < flow[f].pw + 1
      BY <1>a, <2>3, ConstantsAssumption DEF Flow
    <3>2. e \in Flow /\ e.kind = flow[f].kind /\ e.pw # 0 /\ e.at = "change" /\ e.pw < e.n
      BY <1>a, <2>1, <3>1 DEF Flow
    <3>3. flow' = [flow EXCEPT ![f] = e] /\ registered' = registered /\ row' = row
      BY <1>9, <2>3 DEF Rotate, Tasks
    <3> HIDE DEF e
    <3>4. QED
      BY <1>d, <2>1, <3>2, <3>3, GoesOn
  <2>4. CASE NextStage(f)
    BY <2>1, <2>4, NextStageOutcome
  <2>5. QED
    BY <1>9, <2>2, <2>3, <2>4 DEF Rotate
<1>10. CASE Changed(f)
  <2> DEFINE e == [flow[f] EXCEPT !.pw = flow[f].n, !.at = "validate"]
  <2>1. flow[f].kind \notin {"none", "delete"} /\ flow[f].pw < flow[f].n
    BY <1>10, UnderWay DEF Changed, At, Shape
  <2>2. flow[f].n # 0
    BY <1>a, <2>1 DEF Flow
  <2>3. e \in Flow /\ e.kind = flow[f].kind /\ e.pw # 0 /\ e.at = "validate"
    BY <1>a, <2>1, <2>2 DEF Flow
  <2>4. flow' = [flow EXCEPT ![f] = e] /\ registered' = registered /\ row' = row
    BY <1>10 DEF Changed, Tasks
  <2>5. saved' = saved \/ saved' # 0
    BY <1>10, <2>2 DEF Changed
  <2> HIDE DEF e
  <2>6. QED
    BY <1>d, <2>1, <2>3, <2>4, <2>5, GoesOn
<1>11. CASE NotChanged(f)
  <2>1. flow[f].kind \notin {"none", "delete"} /\ flow[f].pw # 0 /\ flow[f].pw < flow[f].n /\ saved' = saved /\ flow[f].at = "change"
    BY <1>11, UnderWay DEF NotChanged, At, Shape
  <2>2. CASE flow[f].n < MaxPassword
    <3> DEFINE e == [flow[f] EXCEPT !.n = flow[f].n + 1]
    <3>1. flow[f].n + 1 \in 0..MaxPassword /\ flow[f].pw < flow[f].n + 1
      BY <1>a, <2>1, <2>2, ConstantsAssumption DEF Flow
    <3>2. e \in Flow /\ e.kind = flow[f].kind /\ e.pw # 0 /\ e.at = "change" /\ e.pw < e.n
      BY <1>a, <2>1, <3>1 DEF Flow
    <3>3. flow' = [flow EXCEPT ![f] = e] /\ registered' = registered /\ row' = row
      BY <1>11, <2>2 DEF NotChanged, NextCandidate, Tasks
    <3> HIDE DEF e
    <3>4. QED
      BY <1>d, <2>1, <3>2, <3>3, GoesOn
  <2>3. CASE ~(flow[f].n < MaxPassword)
    BY <1>11, <2>1, <2>3, NextStageOutcome DEF NotChanged, NextCandidate
  <2>4. QED
    BY <2>2, <2>3
<1>12. QED
  BY <1>1, <1>2, <1>3, <1>4, <1>5, <1>6, <1>7, <1>8, <1>9, <1>10, <1>11 DEF LoginStep
\* The steps that begin a login, but for those of a page.
LEMMA BeginOutcome ==
  ASSUME IInv, NEW f \in Flows, LoginNow(f) \/ LoginAll(f) \/ MonitorLogin(f) \/ Form(f) \/ Request(f)
  PROVE  /\ row' \in Row /\ saved' = saved
         /\ \E e \in Good : Outcome(f, e)
<1> USE DEF IInv
<1>1. flow[f] = flow[f] /\ Plain(flow[f]) /\ row \in Row /\ saved' = saved
  BY DEF LoginNow, LoginAll, MonitorLogin, Form, Request, At, Tasks, Good, Shape, Data, Plain
<1>2. CASE LoginNow(f)
  <2> DEFINE e == [Idle EXCEPT !.kind = "task", !.at = "begin"]
  <2>1. e \in Good /\ e.kind = "task"
    BY QueuedGood
  <2>2. /\ flow' = [flow EXCEPT ![f] = e] /\ registered = NoFlow /\ registered' = f /\ saved # 0
        /\ row' = [row EXCEPT !.status = "logging_in"]
    BY <1>2 DEF LoginNow, HasTask
  <2>3. row' \in Row
    BY <1>1, <2>2 DEF Row
  <2> HIDE DEF e
  <2>4. QED
    BY <1>1, <2>1, <2>2, <2>3 DEF Outcome
<1>3. ASSUME NEW kind \in {"all", "monitor", "form"}, NEW p \in Passwords, Enter(f, kind, p),
             row' = row, registered' = registered
      PROVE  \E e \in Good : Outcome(f, e)
  <2>1. PICK e \in Good : e.kind = kind /\ flow' = [flow EXCEPT ![f] = e]
    BY <1>3, EnterOutcome
  <2>2. Outcome(f, e)
    BY <1>1, <1>3, <2>1 DEF Outcome, Quiet, Plain
  <2>3. QED
    BY <2>2
<1>4. CASE LoginAll(f) \/ MonitorLogin(f)
  <2>1. saved \in Passwords /\ UNCHANGED <<row, registered>> /\ (Enter(f, "all", saved) \/ Enter(f, "monitor", saved))
    BY <1>4 DEF LoginAll, MonitorLogin, Data, Passwords
  <2>2. QED
    BY <1>1, <1>3, <2>1
<1>5. CASE Form(f)
  <2>1. PICK p \in Typed : Enter(f, "form", p)
    BY <1>5 DEF Form
  <2>2. p \in Passwords /\ UNCHANGED <<row, registered>>
    BY <1>5, ConstantsAssumption DEF Form, Passwords
  <2>3. QED
    BY <1>1, <1>3, <2>1, <2>2
<1>6. CASE Request(f)
  <2>1. PICK x \in {due, row.tokens = "stale"} :
          flow' = [flow EXCEPT ![f] = [Idle EXCEPT !.kind = "request", !.at = "refresh", !.pw = cached, !.expired = x]]
    BY <1>6 DEF Request
  <2>2. PICK y \in BOOLEAN : y = x
    BY <2>1 DEF Data
  <2> DEFINE e == [Idle EXCEPT !.kind = "request", !.at = "refresh", !.pw = cached, !.expired = y]
  <2>3. flow' = [flow EXCEPT ![f] = e] /\ UNCHANGED <<row, registered>>
    BY <1>6, <2>1, <2>2 DEF Request
  <2>4. Idle \in Flow /\ cached \in 0..MaxPassword /\ cached # 0
    BY <1>6, IdleGood DEF Good, Request, Data
  <2>5. e \in Flow /\ e.kind = "request" /\ e.at = "refresh" /\ e.pw # 0
    BY <2>4 DEF Flow, Kinds
  <2> HIDE DEF e
  <2>6. e \in Good
    BY <2>5 DEF Good, Shape
  <2>7. Outcome(f, e)
    BY <1>1, <2>3, <2>5 DEF Outcome, Quiet, Plain
  <2>8. QED
    BY <1>1, <2>3, <2>6, <2>7
<1>7. QED
  BY <1>2, <1>4, <1>5, <1>6

\* The tasks stay as they are if neither they nor the row that shows them is touched.
LEMMA TasksSame ==
  ASSUME Tasks, UNCHANGED <<flow, registered, row, restarted, revived>>, saved' = saved \/ saved' # 0
  PROVE  Tasks'
BY DEF Tasks, PendingHasTask, OneTask, Kind, HasTask, Deleting

\* Only a page that looks at the row forgets that it was written for a deleted account.
LEMMA RevivedStays ==
  ASSUME IInv, NEW f \in Flows, LoginStep(f)
  PROVE  revived => revived'
<1> DEFINE Stays == revived => revived'
<1>1. ASSUME Fails(f) PROVE Stays
  BY <1>1 DEF Fails, Revives
<1>2. ASSUME ToFull(f) PROVE Stays
  BY <1>1, <1>2 DEF ToFull
<1>3. flow[f].stage \in {"stored", "refreshed", "full"}
  BY DEF IInv, Tasks, Good, Flow
<1>4. ASSUME NextStage(f) PROVE Stays
  BY <1>1, <1>2, <1>3, <1>4 DEF NextStage
<1>5. CASE Broken(f)
  BY <1>1, <1>2, <1>4, <1>5 DEF Broken
<1>6. CASE Rotate(f) \/ NotChanged(f)
  BY <1>4, <1>6 DEF Rotate, NotChanged, NextCandidate
<1>7. CASE \/ TaskStarts(f) \/ Refreshed(f) \/ FullLogin(f) \/ LoggedIn(f) \/ Validated(f)
           \/ Listed(f) \/ TaskEnds(f) \/ Changed(f)
  BY <1>7 DEF TaskStarts, Refreshed, FullLogin, LoggedIn, Validated, Listed, TaskEnds, Changed
<1>8. QED
  BY <1>5, <1>6, <1>7 DEF LoginStep

\* Every step keeps one task, the registered one.
LEMMA TasksStep == IInv /\ [Next]_vars => Tasks' /\ row' \in Row
<1> SUFFICES ASSUME IInv, [Next]_vars PROVE Tasks' /\ row' \in Row
  OBVIOUS
<1> USE DEF IInv
<1>a. row \in Row /\ registered \in Flows \cup {NoFlow}
  BY DEF Data, Tasks
<1>1. ASSUME NEW f \in Flows, LoginStep(f) PROVE Tasks' /\ row' \in Row
  <2>1. restarted' = restarted
    BY <1>1 DEF LoginStep, TaskStarts, Broken, Refreshed, FullLogin, LoggedIn, Validated, Listed, TaskEnds,
                Rotate, Changed, NotChanged
  <2>2. revived => revived'
    BY <1>1, RevivedStays
  <2>3. QED
    BY <1>1, <2>1, <2>2, LoginOutcome, OutcomeKeeps
<1>2. ASSUME NEW f \in Flows, LoginNow(f) \/ LoginAll(f) \/ MonitorLogin(f) \/ Form(f) \/ Request(f)
      PROVE  Tasks' /\ row' \in Row
  <2>1. restarted' = restarted /\ revived' = revived
    BY <1>2 DEF LoginNow, LoginAll, MonitorLogin, Form, Request
  <2>2. QED
    BY <1>2, <2>1, BeginOutcome, OutcomeKeeps
<1>3. ASSUME NEW f \in Flows, Create(f) \/ Update(f) PROVE Tasks' /\ row' \in Row
  <2>1. UNCHANGED <<flow, registered, row, restarted, revived>> /\ saved' \in Typed
    BY <1>3 DEF Create, Update
  <2>2. saved' # 0
    BY <2>1, ConstantsAssumption
  <2>3. QED
    BY <1>a, <2>1, <2>2, TasksSame
<1>4. CASE UNCHANGED vars
  BY <1>a, <1>4, TasksSame DEF vars
<1>5. CASE Restart
  <2>1. /\ flow' = [f \in Flows |-> Idle] /\ registered' = NoFlow /\ restarted' /\ UNCHANGED <<saved, row>>
    BY <1>5 DEF Restart
  <2>2. OneTask'
    BY <2>1, ConstantsAssumption DEF OneTask, Kind, Idle
  <2>3. flow' \in [Flows -> Good]
    BY <2>1, IdleGood
  <2>4. QED
    BY <1>a, <2>1, <2>2, <2>3 DEF Tasks, PendingHasTask, HasTask
<1>6. ASSUME NEW f \in Flows, DeleteEnds(f) PROVE Tasks' /\ row' \in Row
  <2>1. /\ flow' = [flow EXCEPT ![f] = Idle] /\ registered' = registered /\ row' = NoRow /\ flow[f].kind = "delete"
    BY <1>6 DEF DeleteEnds, Kind
  <2>2. flow' \in [Flows -> Good] /\ Idle.kind # "task"
    BY <2>1, IdleGood DEF Tasks, Idle
  <2>3. OneTask'
    BY <2>1, <2>2 DEF Tasks, PendingHasTask, OneTask, Kind
  <2>4. row' \in Row /\ row'.status # "logging_in"
    BY <2>1 DEF NoRow, Row
  <2>5. QED
    BY <1>a, <2>1, <2>2, <2>3, <2>4 DEF Tasks, PendingHasTask
<1>7. ASSUME NEW f \in Flows, Delete(f) PROVE Tasks' /\ row' \in Row
  <2> DEFINE deletion == [Idle EXCEPT !.kind = "delete", !.at = "ending"]
  <2>1. deletion \in Good /\ deletion.kind = "delete"
    BY DeletionGood
  <2>2. flow[f].kind = "none" /\ registered' = NoFlow
    BY <1>7 DEF Delete, At, Tasks, Good, Shape
  <2>3. CASE HasTask
    <3>1. /\ flow' = [flow EXCEPT ![registered] = Idle, ![f] = deletion] /\ UNCHANGED <<saved, row>>
      BY <1>7, <2>3 DEF Delete
    <3>2. registered \in Flows /\ registered # f
      BY <1>a, <2>2, <2>3 DEF HasTask, Tasks, PendingHasTask, OneTask, Kind
    <3> HIDE DEF deletion
    <3>3. /\ flow' \in [Flows -> Good]
          /\ \A g \in Flows : flow'[g] = IF g = f THEN deletion ELSE IF g = registered THEN Idle ELSE flow[g]
      BY <2>1, <3>1, <3>2, IdleGood DEF Tasks
    <3>4. OneTask'
      <4>1. \A g \in Flows : flow[g].kind = "task" => registered = g
        BY DEF Tasks, PendingHasTask, OneTask, Kind
      <4>2. \A g \in Flows : flow'[g].kind # "task" /\ g # NoFlow
        BY <2>1, <3>3, <4>1, ConstantsAssumption DEF Idle
      <4>3. QED
        BY <2>2, <4>2 DEF OneTask, Kind
    <3>5. Deleting'
      BY <2>1, <3>3 DEF Deleting, Kind
    <3>6. QED
      BY <1>a, <2>2, <3>1, <3>3, <3>4, <3>5 DEF Tasks, PendingHasTask, HasTask
  <2>4. CASE ~HasTask
    <3>1. UNCHANGED flow /\ row' = NoRow /\ registered = NoFlow
      BY <1>7, <2>4 DEF Delete, HasTask
    <3>2. QED
      BY <2>2, <3>1 DEF Tasks, PendingHasTask, OneTask, Kind, NoRow, Row
  <2>5. QED
    BY <2>3, <2>4
<1>8. ASSUME NEW f \in Flows, Page(f) PROVE Tasks' /\ row' \in Row
  <2>1. Plain(flow[f]) /\ saved' = saved /\ restarted' = FALSE
    BY <1>8 DEF Page, At, Tasks, Good, Shape, Plain
  <2>2. /\ Reconciled \in Row
        /\ Reconciled.status = "logging_in" => row.status = "logging_in" /\ HasTask
        /\ Reconciled.status = "logged_in" => saved # 0 /\ Reconciled = row
    BY <1>a DEF Reconciled, Row, LoggedOut, Data
  <2>3. CASE Reconciled.status = "logged_in" /\ row.tokens # "none" /\ Enter(f, "page", saved) /\ UNCHANGED <<row, registered>>
    <3>1. saved \in Passwords
      BY <2>2, <2>3 DEF Data, Passwords
    <3>2. PICK e \in Good : e.kind = "page" /\ flow' = [flow EXCEPT ![f] = e]
      BY <2>3, <3>1, EnterOutcome
    <3>3. Outcome(f, e) /\ row'.status # "logging_in"
      BY <2>1, <2>2, <2>3, <3>2 DEF Outcome, Quiet, Plain
    <3>4. QED
      BY <1>a, <2>1, <2>3, <3>3, OutcomeKeeps
  <2>4. ASSUME NEW r \in {row, Reconciled}, NEW force \in BOOLEAN, PageEnds(f, r, force),
               r.status = "logging_in" => row.status = "logging_in" /\ HasTask
        PROVE  Tasks' /\ row' \in Row
    <3>1. row' \in Row /\ \E e \in Good : Outcome(f, e)
      BY <1>a, <2>1, <2>2, <2>4, PageEndsOutcome
    <3>2. row'.status = "logging_in" => registered' # NoFlow
      BY <2>4, ConstantsAssumption DEF PageEnds, Queue, HasTask
    <3>3. QED
      BY <2>1, <3>1, <3>2, OutcomeKeeps
  <2>5. CASE PageEnds(f, row, TRUE) /\ Reconciled.status = "logged_in"
    BY <2>2, <2>4, <2>5
  <2>6. CASE PageEnds(f, Reconciled, FALSE)
    BY <2>2, <2>4, <2>6
  <2>7. QED
    BY <1>8, <2>3, <2>5, <2>6 DEF Page
<1>9. QED
  BY <1>1, <1>2, <1>3, <1>4, <1>5, <1>6, <1>7, <1>8 DEF Next
\* The broker's password only goes up.
LEMMA BrokerUp ==
  ASSUME IInv, NEW f \in Flows, At(f, "change"), BrokerChanges(f)
  PROVE  /\ broker' = flow[f].n /\ broker' \in Passwords /\ due' \in BOOLEAN
         /\ rotations' \in Nat /\ rotations' # 0 /\ rotations' < broker'
<1>1. flow[f].n \in 0..MaxPassword /\ flow[f].pw \in 0..MaxPassword /\ flow[f].pw < flow[f].n
  BY DEF IInv, Tasks, Good, Flow, Shape, At
<1>2. rotations \in Nat /\ rotations < broker
  BY DEF IInv, Data, Remembered
<1>3. broker = flow[f].pw /\ broker' = flow[f].n /\ due' = FALSE /\ rotations' = rotations + 1
  BY DEF BrokerChanges
<1>4. broker' \in Passwords
  BY <1>1, <1>3, ConstantsAssumption DEF Passwords
<1>5. rotations' \in Nat /\ rotations' # 0 /\ rotations' < broker'
  BY <1>1, <1>2, <1>3, ConstantsAssumption
<1>6. QED
  BY <1>3, <1>4, <1>5

\* Every step keeps the types of what is stored, and the rotations remembered.
LEMMA DataStep == IInv /\ [Next]_vars => Data' /\ Remembered'
<1> SUFFICES ASSUME IInv, [Next]_vars PROVE Data' /\ Remembered'
  OBVIOUS
<1> DEFINE Stores == saved' \in 0..MaxPassword /\ cached' \in 0..MaxPassword
           Locks == rotating' \in Flows \cup {NoFlow} /\ full' \in Flows \cup {NoFlow}
                    /\ restarted' \in BOOLEAN /\ revived' \in BOOLEAN
           Faults == faults' \in 0..MaxFaults /\ faults' >= faults
           Same == UNCHANGED <<backups, broker, due, rotations>>
           Accident == /\ UNCHANGED backups /\ Fault
                       /\ \E f \in Flows : At(f, "change") /\ BrokerChanges(f)
<1>a. /\ row' \in Row
      /\ saved \in 0..MaxPassword /\ cached \in 0..MaxPassword
      /\ rotating \in Flows \cup {NoFlow} /\ full \in Flows \cup {NoFlow}
      /\ restarted \in BOOLEAN /\ revived \in BOOLEAN
      /\ faults \in 0..MaxFaults /\ faults \in Nat /\ MaxPassword \in Nat /\ 0 \in 0..MaxPassword
      /\ \A f \in Flows : flow[f].pw \in 0..MaxPassword /\ flow[f].n \in 0..MaxPassword
      /\ Typed \subseteq 0..MaxPassword
  BY TasksStep, ConstantsAssumption DEF IInv, Data, Tasks, Good, Flow
<1>b. ASSUME Stores, Locks, Faults, Same PROVE Data' /\ Remembered'
  BY <1>a, <1>b DEF IInv, Data, Remembered
<1>c. Fault => Faults /\ faults' # 0
  BY <1>a, ConstantsAssumption DEF Fault
<1>d. ASSUME Stores, Locks, Accident PROVE Data' /\ Remembered'
  BY <1>a, <1>c, <1>d, BrokerUp DEF IInv, Data, Remembered
<1>e. ASSUME UNCHANGED faults PROVE Faults
  BY <1>a, <1>e
<1>f. ASSUME NEW f \in Flows, Release(f), UNCHANGED restarted, revived' \in BOOLEAN PROVE Locks
  BY <1>a, <1>f DEF Release
<1>g. ASSUME NEW f \in Flows, Fails(f) \/ ToFull(f) \/ NextStage(f), UNCHANGED restarted,
             flow[f].stage \in {"stored", "refreshed", "full"}
      PROVE  Locks
  <2>1. Release(f)
    BY <1>g DEF Fails, ToFull, NextStage
  <2>2. revived' \in BOOLEAN
    BY <1>a, <1>g DEF Fails, Revives, ToFull, NextStage
  <2>3. QED
    BY <1>f, <1>g, <2>1, <2>2
<1>h. \A f \in Flows : flow[f].stage \in {"stored", "refreshed", "full"}
  BY DEF IInv, Tasks, Good, Flow
<1> HIDE DEF Faults
<1>1. CASE UNCHANGED vars
  BY <1>1, <1>a, <1>b, <1>e DEF vars
<1>2. ASSUME NEW f \in Flows,
             \/ TaskStarts(f) \/ Refreshed(f) \/ FullLogin(f) \/ LoggedIn(f) \/ Listed(f) \/ TaskEnds(f)
             \/ LoginNow(f) \/ Page(f) \/ LoginAll(f) \/ MonitorLogin(f) \/ Form(f) \/ Request(f)
             \/ Create(f) \/ Update(f) \/ DeleteEnds(f)
      PROVE  Data' /\ Remembered'
  <2>1. Same /\ UNCHANGED faults
    BY <1>2 DEF TaskStarts, Refreshed, FullLogin, LoggedIn, Listed, TaskEnds, LoginNow, Page, LoginAll,
                MonitorLogin, Form, Request, Create, Update, DeleteEnds
  <2>2. Stores
    BY <1>2, <1>a DEF TaskStarts, Refreshed, FullLogin, LoggedIn, Listed, TaskEnds, LoginNow, Page, LoginAll,
                MonitorLogin, Form, Request, Create, Update, DeleteEnds
  <2>3. Locks
    BY <1>2, <1>a DEF TaskStarts, Refreshed, FullLogin, LoggedIn, Listed, TaskEnds, LoginNow, Page, LoginAll,
                MonitorLogin, Form, Request, Create, Update, DeleteEnds
  <2>4. QED
    BY <1>b, <1>e, <2>1, <2>2, <2>3
<1>3. ASSUME NEW f \in Flows, Broken(f) PROVE Data' /\ Remembered'
  <2>1. Same /\ UNCHANGED <<saved, cached, faults, restarted>>
    BY <1>3 DEF Broken
  <2>2. Locks
    BY <1>3, <1>a, <1>f, <1>g, <1>h, <2>1 DEF Broken
  <2>3. QED
    BY <1>a, <1>b, <1>e, <2>1, <2>2
<1>4. ASSUME NEW f \in Flows, Validated(f) PROVE Data' /\ Remembered'
  <2>1. Same /\ Release(f) /\ UNCHANGED <<restarted, revived>>
    BY <1>4 DEF Validated
  <2>2. Stores
    BY <1>4, <1>a DEF Validated
  <2>3. Faults
    BY <1>4, <1>c, <1>e DEF Validated
  <2>4. QED
    BY <1>a, <1>b, <1>f, <2>1, <2>2, <2>3
<1>5. ASSUME NEW f \in Flows, Rotate(f) PROVE Data' /\ Remembered'
  <2>1. Same /\ UNCHANGED <<saved, cached, faults, restarted>>
    BY <1>5 DEF Rotate
  <2>2. Locks
    BY <1>5, <1>a, <1>g, <1>h, <2>1 DEF Rotate
  <2>3. QED
    BY <1>a, <1>b, <1>e, <2>1, <2>2
<1>6. ASSUME NEW f \in Flows, Changed(f) PROVE Data' /\ Remembered'
  <2>1. At(f, "change") /\ BrokerChanges(f) /\ Locks
    BY <1>6, <1>a DEF Changed
  <2>2. Stores
    BY <1>6, <1>a DEF Changed
  <2>3. CASE Fault /\ UNCHANGED backups
    BY <1>d, <2>1, <2>2, <2>3
  <2>4. CASE backups' = Backup(f)
    <3>1. Faults
      BY <1>6, <1>c, <1>e DEF Changed
    <3>2. broker' = flow[f].n /\ broker' \in Passwords /\ due' \in BOOLEAN
          /\ rotations' \in Nat /\ rotations' # 0 /\ rotations' < broker'
      BY <2>1, BrokerUp
    <3>3. broker' \in backups' /\ backups' \subseteq Passwords
      BY <2>4, <3>2 DEF Backup, IInv, Data
    <3>4. Remembered'
      BY <3>2, <3>3 DEF Remembered
    <3>5. QED
      BY <1>a, <2>1, <2>2, <3>1, <3>2, <3>3, <3>4 DEF Data, Faults
  <2>5. QED
    BY <1>6, <2>3, <2>4 DEF Changed
<1>7. ASSUME NEW f \in Flows, NotChanged(f) PROVE Data' /\ Remembered'
  <2>1. Stores /\ UNCHANGED <<backups, restarted>>
    BY <1>7, <1>a DEF NotChanged
  <2>2. Locks
    BY <1>7, <1>a, <1>g, <1>h, <2>1 DEF NotChanged, NextCandidate
  <2>3. QED
    BY <1>7, <1>b, <1>d, <1>e, <2>1, <2>2 DEF NotChanged
<1>8. ASSUME NEW f \in Flows, Delete(f) PROVE Data' /\ Remembered'
  <2>1. Stores /\ UNCHANGED <<backups, restarted>>
    BY <1>8, <1>a DEF Delete
  <2>2. Locks
    BY <1>8, <1>a, <2>1 DEF Delete, Release
  <2>3. (Same /\ UNCHANGED faults) \/ Accident
    <3>1. CASE Same /\ UNCHANGED faults
      BY <3>1
    <3>2. CASE HasTask /\ At(registered, "change") /\ BrokerChanges(registered) /\ Fault
      <4>1. registered \in Flows
        BY <3>2 DEF HasTask, IInv, Tasks
      <4>2. QED
        BY <2>1, <3>2, <4>1
    <3>3. QED
      BY <1>8, <3>1, <3>2 DEF Delete
  <2>4. QED
    BY <1>b, <1>d, <1>e, <2>1, <2>2, <2>3
<1>9. CASE Restart
  <2>1. Stores /\ Locks /\ UNCHANGED backups
    BY <1>9, <1>a DEF Restart
  <2>2. QED
    BY <1>9, <1>b, <1>d, <1>e, <2>1 DEF Restart
<1>10. QED
  BY <1>1, <1>2, <1>3, <1>4, <1>5, <1>6, <1>7, <1>8, <1>9 DEF Next, LoginStep

-----------------------------------------------------------------------------
(* The theorems.                                                           *)

\* A step of a login leaves the other coroutines alone.
LEMMA OnlyOwn ==
  ASSUME flow \in [Flows -> Good], NEW g \in Flows, LoginStep(g), NEW f \in Flows, g # f
  PROVE  flow'[f] = flow[f]
<1> DEFINE Own == flow'[f] = flow[f]
<1>1. ASSUME NEW r, NEW force, PageEnds(g, r, force) PROVE Own
  BY <1>1 DEF PageEnds, Queue
<1>2. ASSUME Fails(g) PROVE Own
  BY <1>1, <1>2 DEF Fails, Revives
<1>3. ASSUME ToFull(g) PROVE Own
  BY <1>2, <1>3 DEF ToFull
<1>4. ASSUME NextStage(g), flow[g].stage \in {"stored", "refreshed", "full"} PROVE Own
  BY <1>2, <1>3, <1>4 DEF NextStage, Go
<1>5. flow[g].stage \in {"stored", "refreshed", "full"}
  BY DEF Good, Flow
<1>6. CASE Broken(g)
  BY <1>2, <1>3, <1>4, <1>5, <1>6 DEF Broken
<1>7. CASE TaskStarts(g) \/ Listed(g)
  BY <1>1, <1>7 DEF TaskStarts, Listed, Enter
<1>8. CASE Rotate(g) \/ NotChanged(g)
  BY <1>4, <1>5, <1>8 DEF Rotate, NotChanged, NextCandidate
<1>9. CASE Refreshed(g) \/ FullLogin(g) \/ LoggedIn(g) \/ Validated(g) \/ TaskEnds(g) \/ Changed(g)
  BY <1>9 DEF Refreshed, FullLogin, LoggedIn, Validated, TaskEnds, Changed, Go
<1>10. QED
  BY <1>6, <1>7, <1>8, <1>9 DEF LoginStep

\* The inductive invariant, for any logins that overlap and any faults.
THEOREM InvariantEver == Spec => []IInv
<1>1. IInv /\ [Next]_vars => IInv'
  BY TasksStep, DataStep DEF IInv
<1>2. QED
  BY <1>1, InductiveInit, PTL DEF Spec

\* Types, as the runs read them: no more passwords are rotated than there are.
THEOREM TypeCorrect == Spec => []TypeOK
<1>1. IInv => TypeOK
  <2> SUFFICES ASSUME IInv PROVE TypeOK
    OBVIOUS
  <2>1. flow \in [Flows -> Flow]
    BY DEF IInv, Tasks, Good
  <2>2. rotations \in 0..MaxPassword
    BY ConstantsAssumption DEF IInv, Data, Remembered, Passwords
  <2>3. QED
    BY <2>1, <2>2 DEF IInv, Tasks, Data, TypeOK
<1>2. QED
  BY <1>1, InvariantEver, PTL

\* However many logins, pages and deletions overlap, and whatever fails or dies: one login runs
\* for an account, the registered one, and a row that says "logging_in" stands for it.
THEOREM PendingEver == Spec => []PendingHasTask
<1>1. IInv => PendingHasTask
  BY DEF IInv, Tasks
<1>2. QED
  BY <1>1, InvariantEver, PTL

\* Without a lost answer or a failed write the broker's password is always in the account or
\* its backups, however many logins rotate, carry old passwords, or are deleted.
THEOREM RecoverableEver == Spec => []RecoverablePassword
<1>1. IInv => RecoverablePassword
  BY DEF IInv, Remembered, Data, RecoverablePassword
<1>2. QED
  BY <1>1, InvariantEver, PTL

\* Without a fault no login begins to rotate a password that another has rotated to.
THEOREM RotatesOnceEver == Spec => RotatesOnce
<1>1. IInv /\ [Next]_vars
        => [\A f \in Flows : At(f, "rotate") /\ flow'[f].at = "change" /\ flow[f].pw = broker
                                /\ saved # 0 /\ rotations > 0 => faults > 0]_vars
  <2> SUFFICES ASSUME IInv, Next, NEW f \in Flows, At(f, "rotate"), flow'[f].at = "change",
                      flow[f].pw = broker, saved # 0, rotations > 0, faults = 0
               PROVE  FALSE
    BY DEF IInv, Data
  <2>1. Known(f)
    BY DEF IInv, Remembered, Known
  <2>2. At(f, "rotate") /\ flow \in [Flows -> Good]
    BY DEF IInv, Tasks
  <2>3. flow'[f] # flow[f]
    BY <2>2 DEF At
  <2>4. ASSUME NEW g \in Flows, LoginStep(g) PROVE g = f
    <3>1. SUFFICES ASSUME g # f PROVE flow'[f] = flow[f]
      BY <2>3
    <3>2. QED
      BY <2>2, <2>4, <3>1, OnlyOwn
  <2>5. ~LoginStep(f)
    <3>1. ~Rotate(f)
      <4>1. SUFFICES ASSUME Rotate(f) PROVE flow'[f].at = "validate"
        OBVIOUS
      <4>2. flow' = [flow EXCEPT ![f].pw = saved, ![f].at = "validate"]
        BY <2>1, <4>1 DEF Rotate
      <4>3. flow[f] \in Flow
        BY <2>2 DEF Good
      <4>4. QED
        BY <2>2, <4>2, <4>3 DEF Flow
    <3>2. QED
      BY <2>2, <3>1 DEF LoginStep, At, TaskStarts, Broken, Refreshed, FullLogin, LoggedIn, Validated, Listed,
                        TaskEnds, Changed, NotChanged
  <2>6. ~Restart
    BY <2>2 DEF Restart, Idle
  <2>7. ASSUME NEW g \in Flows, LoginNow(g) \/ Page(g) \/ LoginAll(g) \/ MonitorLogin(g) \/ Form(g)
                               \/ Request(g) \/ Create(g) \/ Update(g) \/ DeleteEnds(g)
        PROVE  FALSE
    <3>1. g # f
      BY <2>2, <2>7 DEF At, LoginNow, Page, LoginAll, MonitorLogin, Form, Request, Create, Update, DeleteEnds
    <3>2. QED
      BY <2>2, <2>3, <2>7, <3>1 DEF LoginNow, Page, LoginAll, MonitorLogin, Form, Request, Create, Update, DeleteEnds,
                                    Enter, PageEnds, Queue
  <2>8. ASSUME NEW g \in Flows, Delete(g) PROVE FALSE
    <3>1. g # f /\ flow'[f] \in {flow[f], Idle}
      BY <2>2, <2>8 DEF Delete, At
    <3>2. QED
      BY <2>2, <3>1 DEF At, Idle
  <2>9. QED
    BY <2>4, <2>5, <2>6, <2>7, <2>8 DEF Next
<1>2. IInv /\ [Next]_vars => IInv'
  BY TasksStep, DataStep DEF IInv
<1>3. QED
  BY <1>1, <1>2, InductiveInit, PTL DEF Spec, RotatesOnce
=============================================================================
