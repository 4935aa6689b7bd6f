--------------------------- MODULE MonitorControl ---------------------------
(***************************************************************************)
(* Who starts and stops the scheduled-order monitor                        *)
(* (utils/scheduled_monitor_control.py): the supervisor loop, the API's    *)
(* check_orders and stop_check_orders, and the application's shutdown.     *)
(* They share the flag is_running and the handle of the last task created; *)
(* the monitor itself only reads the flag at the head of its cycle, and    *)
(* clears it when it ends, however it ends.                                *)
(***************************************************************************)
EXTENDS Naturals, FiniteSets

CONSTANTS
  Monitors,     \* identities of the tasks ever created (bounds their number)
  ApiCallers,   \* stop_check_orders calls in flight
  Supervisor, AppShutdown,
  NoMonitor

Stoppers == ApiCallers \cup {Supervisor, AppShutdown}

ASSUME ConstantsAssumption ==
  /\ NoMonitor \notin Monitors
  /\ Supervisor \notin ApiCallers /\ AppShutdown \notin ApiCallers
  /\ Supervisor # AppShutdown

VARIABLES
  running,    \* tms_config.is_running
  handle,     \* tms_config.check_orders_task
  monitor,    \* state of each monitor task
  awaits,     \* the task a stop_scheduled_order_monitor call awaits
  window,     \* should_auto_run_scheduler() = should_keep_scheduler_running()
  looping,    \* the supervisor task is alive
  cancelLost, \* the supervisor was cancelled while it awaited a monitor
  shutdown    \* progress of the application's shutdown

vars == <<running, handle, monitor, awaits, window, looping, cancelLost, shutdown>>

\* "created": not yet run; "hung": waits for ever (TmsSession); "cancelling": cancelled,
\* but its price fetches swallow the CancelledError and have to run out first.
MonitorStates == {"unused", "created", "cycle", "hung", "cancelling", "done"}
Working == {"created", "cycle", "hung"}

-----------------------------------------------------------------------------
\* (Operators named Mutant... are faulty variants of the definition that follows them:
\* the properties at the end of the module tell the two apart.)
Init ==
  /\ running = FALSE /\ handle = NoMonitor
  /\ monitor = [m \in Monitors |-> "unused"]
  /\ awaits = [c \in Stoppers |-> NoMonitor]
  /\ window \in BOOLEAN
  /\ looping = TRUE /\ cancelLost = FALSE
  /\ shutdown = "no"

\* start_scheduled_order_monitor: test, set and create_task without an await.
Start(m) ==
  /\ ~running
  /\ monitor[m] = "unused"
  /\ running' = TRUE /\ handle' = m
  /\ monitor' = [monitor EXCEPT ![m] = "created"]
  /\ UNCHANGED awaits

\* A task that has not begun is dropped, and its finally clause with it.
Cancelled(s) == IF s = "created" THEN "done" ELSE "cancelling"

\* stop_scheduled_order_monitor: clear the flag and the handle, cancel, await.
StopBy(c) ==
  /\ running
  /\ running' = FALSE /\ handle' = NoMonitor
  /\ IF handle # NoMonitor /\ monitor[handle] # "done"
       THEN /\ monitor' = [monitor EXCEPT ![handle] = Cancelled(@)]
            /\ awaits' = [awaits EXCEPT ![c] = handle]
       ELSE UNCHANGED <<monitor, awaits>>

Returns(c) ==
  /\ awaits[c] # NoMonitor /\ monitor[awaits[c]] = "done"
  /\ awaits' = [awaits EXCEPT ![c] = NoMonitor]
  /\ UNCHANGED <<running, handle, monitor>>

-----------------------------------------------------------------------------
(* The monitor task (monitor_order_task_func) as its callers see it.       *)

Environment == <<window, looping, cancelLost, shutdown>>

MutantFinally(m) ==
  /\ monitor' = [monitor EXCEPT ![m] = "done"]
  /\ UNCHANGED <<running, handle, awaits>>
Finally(m) ==                     \* the finally clause clears the flag, whoever set it
  /\ monitor' = [monitor EXCEPT ![m] = "done"]
  /\ running' = FALSE
  /\ UNCHANGED <<handle, awaits>>

Begin(m) ==
  /\ monitor[m] = "created"
  /\ IF running
       THEN monitor' = [monitor EXCEPT ![m] = "cycle"] /\ UNCHANGED <<running, handle, awaits>>
       ELSE Finally(m)
  /\ UNCHANGED Environment

\* The head of the loop sees the flag down.
Notice(m) ==
  /\ monitor[m] = "cycle" /\ ~running
  /\ Finally(m)
  /\ UNCHANGED Environment

Hang(m) ==
  /\ monitor[m] = "cycle"
  /\ monitor' = [monitor EXCEPT ![m] = "hung"]
  /\ UNCHANGED <<running, handle, awaits, Environment>>

\* The handler of a failed cycle fails too: the exception leaves the loop.
Fail(m) ==
  /\ monitor[m] = "cycle"
  /\ Finally(m)
  /\ UNCHANGED Environment

CancelEnds(m) ==
  /\ monitor[m] = "cancelling"
  /\ Finally(m)
  /\ UNCHANGED Environment

-----------------------------------------------------------------------------
(* The supervisor, the API and the shutdown.                               *)

SupervisorIdle == looping /\ awaits[Supervisor] = NoMonitor

SupervisorStarts ==
  /\ SupervisorIdle /\ window
  /\ \E m \in Monitors : Start(m)
  /\ UNCHANGED Environment

SupervisorStops ==
  /\ SupervisorIdle /\ ~window
  /\ StopBy(Supervisor)
  /\ UNCHANGED Environment

ApiStarts ==
  /\ shutdown = "no"
  /\ \E m \in Monitors : Start(m)
  /\ UNCHANGED Environment

ApiStops(c) ==
  /\ shutdown = "no" /\ awaits[c] = NoMonitor
  /\ StopBy(c)
  /\ UNCHANGED Environment

StopReturns(c) ==
  /\ Returns(c)
  /\ UNCHANGED Environment

MutantShutdownBegins ==
  /\ shutdown = "no" /\ shutdown' = "supervisor"
  /\ UNCHANGED <<running, handle, monitor, awaits, window, looping, cancelLost>>

\* The supervisor is cancelled.  If it sleeps it ends; if it awaits a monitor inside
\* stop_scheduled_order_monitor, that function takes the CancelledError for the monitor's.
ShutdownBegins ==
  /\ shutdown = "no" /\ shutdown' = "supervisor"
  /\ IF SupervisorIdle
       THEN looping' = FALSE /\ UNCHANGED cancelLost
       ELSE cancelLost' = TRUE /\ UNCHANGED looping
  /\ UNCHANGED <<running, handle, monitor, awaits, window>>

\* "await scheduled_supervisor_task" returns and the shutdown stops the monitor.
ShutdownStops ==
  /\ shutdown = "supervisor" /\ ~looping
  /\ shutdown' = "monitor"
  /\ \/ StopBy(AppShutdown)
     \/ ~running /\ UNCHANGED <<running, handle, monitor, awaits>>
  /\ UNCHANGED <<window, looping, cancelLost>>

ShutdownEnds ==
  /\ shutdown = "monitor" /\ awaits[AppShutdown] = NoMonitor
  /\ shutdown' = "down"
  /\ UNCHANGED <<running, handle, monitor, awaits, window, looping, cancelLost>>

\* The market opens or closes, the last account logs in or out.
WindowChanges ==
  /\ window' = ~window
  /\ UNCHANGED <<running, handle, monitor, awaits, looping, cancelLost, shutdown>>

MonitorStep(m) == Begin(m) \/ Notice(m) \/ CancelEnds(m)
SupervisorStep == SupervisorStarts \/ SupervisorStops
ShutdownStep == ShutdownStops \/ ShutdownEnds

Next ==
  \/ \E m \in Monitors : MonitorStep(m) \/ Hang(m) \/ Fail(m)
  \/ SupervisorStep \/ ShutdownStep \/ ShutdownBegins
  \/ ApiStarts
  \/ \E c \in ApiCallers : ApiStops(c)
  \/ \E c \in Stoppers : StopReturns(c)
  \/ WindowChanges

Spec == Init /\ [][Next]_vars

\* The event loop runs what is ready, and a cancelled price fetch runs out.
Fairness ==
  /\ \A m \in Monitors : WF_vars(MonitorStep(m))
  /\ WF_vars(SupervisorStep) /\ WF_vars(ShutdownStep)
  /\ \A c \in Stoppers : WF_vars(StopReturns(c))
FairSpec == Spec /\ Fairness

-----------------------------------------------------------------------------
(* Properties *)

\* Types of the variables.
TypeOK ==
  /\ running \in BOOLEAN /\ handle \in Monitors \cup {NoMonitor}
  /\ monitor \in [Monitors -> MonitorStates]
  /\ awaits \in [Stoppers -> Monitors \cup {NoMonitor}]
  /\ window \in BOOLEAN /\ looping \in BOOLEAN /\ cancelLost \in BOOLEAN
  /\ shutdown \in {"no", "supervisor", "monitor", "down"}

\* While is_running is set the last task created is alive and nobody has cancelled it:
\* the flag the handlers and the status page trust is never left behind by a task that
\* was dropped, failed or was stopped, whatever order the callers come in.
RunningHasMonitor ==
  running => handle \in Monitors /\ monitor[handle] \in Working

\* While the market stays open the supervisor keeps a monitor alive (as long as task
\* identities last), although old tasks clear the flag of new ones.
KeepsRunning ==
  <>[](window /\ shutdown = "no") =>
    []<>(\E m \in Monitors : monitor[m] \in Working \/ \A x \in Monitors : monitor[x] # "unused")

\* The shutdown ends, unless it cancelled the supervisor inside a stop: then
\* main.py:758 awaits a supervisor that has lost its cancellation and loops for ever.
ShutdownCompletes == shutdown # "no" ~> shutdown = "down" \/ cancelLost

\* "Check orders loop is already running." (main.py:3792, 3796): no monitor is started
\* beside one that is in its cycle.
OneMonitor == Cardinality({m \in Monitors : monitor[m] \in {"cycle", "hung"}}) <= 1
=============================================================================
