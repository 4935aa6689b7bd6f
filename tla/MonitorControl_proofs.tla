----------------------- MODULE MonitorControl_proofs -----------------------
(***************************************************************************)
(* Proofs about MonitorControl, for any number of tasks and callers, and   *)
(* about the gate its monitors wait at (MarketGate), for any accounts,     *)
(* brokers and pages.                                                      *)
(***************************************************************************)
EXTENDS MonitorControl, MarketGate, SequenceTheorems, TLAPS

IInv == TypeOK /\ RunningHasMonitor

\* Nothing runs at first.
LEMMA InductiveInit ==
  Init => IInv
BY DEF Init, IInv, TypeOK, RunningHasMonitor, MonitorStates

\* Starting sets the flag and creates the task it stands for.
LEMMA StartKeeps ==
  ASSUME IInv, NEW m \in Monitors, Start(m), UNCHANGED Environment
  PROVE  IInv'
BY DEF Start, IInv, TypeOK, RunningHasMonitor, MonitorStates, Working, Environment

\* Stopping takes the flag down.
LEMMA StopKeeps ==
  ASSUME TypeOK, NEW c \in Stoppers, StopBy(c)
  PROVE  /\ running' \in BOOLEAN /\ ~running' /\ handle' \in Monitors \cup {NoMonitor}
         /\ monitor' \in [Monitors -> MonitorStates]
         /\ awaits' \in [Stoppers -> Monitors \cup {NoMonitor}]
BY ConstantsAssumption DEF StopBy, TypeOK, MonitorStates, Cancelled

\* The finally clause takes the flag down.
LEMMA FinallyKeeps ==
  ASSUME IInv, NEW m \in Monitors, Finally(m), UNCHANGED Environment
  PROVE  IInv'
BY DEF Finally, IInv, TypeOK, RunningHasMonitor, MonitorStates, Environment

\* Every step preserves the invariant.
LEMMA InductiveStep ==
  IInv /\ [Next]_vars => IInv'
<1> SUFFICES ASSUME IInv, [Next]_vars PROVE IInv'
  OBVIOUS
<1> USE DEF IInv
<1>1. ASSUME NEW m \in Monitors, MonitorStep(m) \/ Hang(m) \/ Fail(m) PROVE IInv'
  <2>1. CASE Finally(m) /\ UNCHANGED Environment
    BY <2>1, FinallyKeeps
  <2>2. CASE Begin(m) /\ running
    BY <2>2 DEF Begin, TypeOK, RunningHasMonitor, MonitorStates, Working, Environment
  <2>3. CASE Hang(m)
    BY <2>3 DEF Hang, TypeOK, RunningHasMonitor, MonitorStates, Working, Environment
  <2>4. QED
    BY <1>1, <2>1, <2>2, <2>3 DEF MonitorStep, Begin, Notice, CancelEnds, Fail
<1>2. CASE SupervisorStarts \/ ApiStarts
  BY <1>2, StartKeeps DEF SupervisorStarts, ApiStarts
<1>3. ASSUME NEW c \in Stoppers, StopBy(c), UNCHANGED Environment PROVE IInv'
  BY <1>3, StopKeeps DEF TypeOK, RunningHasMonitor, Environment
<1>4. CASE SupervisorStops \/ \E c \in ApiCallers : ApiStops(c)
  BY <1>3, <1>4 DEF SupervisorStops, ApiStops, Stoppers
<1>5. CASE \E c \in Stoppers : StopReturns(c)
  BY <1>5 DEF StopReturns, Returns, TypeOK, RunningHasMonitor, Environment
<1>6. CASE ShutdownStops
  <2>1. CASE StopBy(AppShutdown)
    BY <1>6, <2>1, StopKeeps DEF ShutdownStops, TypeOK, RunningHasMonitor, Stoppers
  <2>2. CASE UNCHANGED <<running, handle, monitor, awaits>>
    BY <1>6, <2>2 DEF ShutdownStops, TypeOK, RunningHasMonitor
  <2>3. QED
    BY <1>6, <2>1, <2>2 DEF ShutdownStops
<1>7. CASE ShutdownBegins \/ ShutdownEnds \/ WindowChanges \/ UNCHANGED vars
  <2>1. UNCHANGED <<running, handle, monitor, awaits>>
    BY <1>7 DEF ShutdownBegins, ShutdownEnds, WindowChanges, vars
  <2>2. /\ window' \in BOOLEAN /\ looping' \in BOOLEAN /\ cancelLost' \in BOOLEAN
        /\ shutdown' \in {"no", "supervisor", "monitor", "down"}
    <3>1. CASE ShutdownBegins
      BY <3>1 DEF ShutdownBegins, TypeOK
    <3>2. CASE ShutdownEnds
      BY <3>2 DEF ShutdownEnds, TypeOK
    <3>3. CASE WindowChanges
      BY <3>3 DEF WindowChanges, TypeOK
    <3>4. CASE UNCHANGED vars
      BY <3>4 DEF vars, TypeOK
    <3>5. QED
      BY <1>7, <3>1, <3>2, <3>3, <3>4
  <2>3. QED
    BY <2>1, <2>2 DEF TypeOK, RunningHasMonitor
<1>8. QED
  BY <1>1, <1>2, <1>4, <1>5, <1>6, <1>7 DEF Next, SupervisorStep, ShutdownStep

\* Every variable keeps its type, for any number of tasks and callers.
THEOREM TypeCorrect == Spec => []TypeOK
<1>1. IInv => TypeOK
  BY DEF IInv
<1>2. QED
  BY <1>1, InductiveInit, InductiveStep, PTL DEF Spec

\* Whatever order the supervisor, the API and the shutdown come in, and however many tasks
\* there have been: while is_running is set, the task of the handle is alive and has not
\* been cancelled.
THEOREM RunningIsBacked == Spec => []RunningHasMonitor
<1>1. IInv => RunningHasMonitor
  BY DEF IInv
<1>2. QED
  BY <1>1, InductiveInit, InductiveStep, PTL DEF Spec

-----------------------------------------------------------------------------
(* The market gate.                                                        *)

Positions == {"idle", "queued", "asking", "sent", "confirmed", "denied", "hung"}
Resting == {"idle", "queued"}
CheckerType ==
  checker \in [Checkers -> [at : Positions, left : Seq(DOMAIN Accounts), keyed : BOOLEAN]]

\* A caller that asks has somebody left to ask.
SomebodyLeft == \A c \in Checkers : checker[c].at \notin Resting => checker[c].left # <<>>

\* An open exchange has been seen.
SeenOpen ==
  /\ exchange \in [open : BOOLEAN, hours : BOOLEAN, out : SUBSET DOMAIN Accounts]
  /\ exchange.open => wasOpen

\* An account confirms only if the exchange was open since it was turned to.
ConfirmsOpen == \A c \in Checkers : checker[c].at = "confirmed" => wasOpen

\* Success is never kept: an account that answers so makes the exchange live, which empties
\* the cache it was kept in.
SuccessNotKept == sessions \in [Brokers -> [said : {"none", "failed"}, old : BOOLEAN]]

DnaType == dna \in [active : BOOLEAN, fresh : BOOLEAN]

GateIInv ==
  /\ DnaType /\ CheckerType /\ holder \in Checkers \cup {Nobody}
  /\ SomebodyLeft /\ OneCheck /\ SuccessNotKept /\ SeenOpen /\ ConfirmsOpen

\* Nobody asks at first, and nothing is kept.
LEMMA GateInductiveInit ==
  GateInit => GateIInv
BY MarketGateAssumption
DEF GateInit, GateIInv, DnaType, CheckerType, Positions, Resting, SomebodyLeft, OneCheck, SuccessNotKept, SeenOpen, ConfirmsOpen,
    Idle, NoAnswer, Checkers

\* Those a caller asks are accounts, and there is one.
LEMMA AsksSomebody ==
  ASSUME NEW c \in Checkers
  PROVE  Asks(c) \in Seq(DOMAIN Accounts) /\ Asks(c) # <<>>
<1>1. CASE c = Monitor
  <2>1. [i \in DOMAIN Accounts |-> i] \in Seq(DOMAIN Accounts)
    BY MarketGateAssumption, SMT
  <2>2. 1 \in DOMAIN [i \in DOMAIN Accounts |-> i]
    BY MarketGateAssumption
  <2>3. [i \in DOMAIN Accounts |-> i] # <<>>
    BY <2>2
  <2>4. QED
    BY <1>1, <2>1, <2>3 DEF Asks
<1>2. CASE c # Monitor
  BY <1>2, MarketGateAssumption DEF Asks, Checkers
<1>3. QED
  BY <1>1, <1>2

\* The account being asked has a broker.
LEMMA BrokerKnown ==
  ASSUME GateIInv, NEW c \in Checkers, checker[c].at \notin Resting
  PROVE  Broker(c) \in Brokers
<1>1. checker[c].left \in Seq(DOMAIN Accounts) /\ checker[c].left # <<>>
  BY DEF GateIInv, CheckerType, SomebodyLeft
<1>2. Asked(c) \in DOMAIN Accounts
  BY <1>1, SMT DEF Asked
<1>3. QED
  BY <1>2 DEF Broker, Brokers

\* A caller that goes elsewhere and leaves the lock and the cache alone.
LEMMA MoveKeeps ==
  ASSUME GateIInv, NEW c \in Checkers,
         NEW to \in [at : Positions, left : Seq(DOMAIN Accounts), keyed : BOOLEAN], Goes(c, to),
         to.at \notin Resting <=> holder' = c,
         to.at \notin Resting => to.left # <<>>,
         \/ holder' = holder
         \/ holder = Nobody /\ holder' = c
         \/ holder = c /\ holder' = Nobody,
         to.at = "confirmed" => wasOpen',
         (wasOpen => wasOpen') \/ holder \in {c, Nobody}
  PROVE  /\ CheckerType' /\ holder' \in Checkers \cup {Nobody}
         /\ SomebodyLeft' /\ OneCheck' /\ ConfirmsOpen'
<1>1. CheckerType'
  BY DEF GateIInv, CheckerType, Goes
<1>2. holder' \in Checkers \cup {Nobody}
  BY DEF GateIInv
<1>3. \A d \in Checkers : checker'[d] = IF d = c THEN to ELSE checker[d]
  BY DEF GateIInv, CheckerType, Goes
<1>4. SomebodyLeft'
  BY <1>3 DEF GateIInv, SomebodyLeft
<1>5. OneCheck'
  BY <1>3, MarketGateAssumption DEF GateIInv, OneCheck, Resting
<1>6. ConfirmsOpen'
  <2>1. ASSUME NEW d \in Checkers, d # c, checker[d].at = "confirmed" PROVE wasOpen'
    <3>1. holder = d /\ d # Nobody /\ wasOpen
      BY <2>1, MarketGateAssumption DEF GateIInv, OneCheck, ConfirmsOpen
    <3>2. QED
      BY <2>1, <3>1
  <2>2. QED
    BY <1>3, <2>1 DEF ConfirmsOpen
<1>7. QED
  BY <1>1, <1>2, <1>4, <1>5, <1>6

\* A caller that ends its check.
LEMMA EndsKeeps ==
  ASSUME GateIInv, NEW c \in Checkers, checker[c].at \notin Resting, NEW active, Ends(c, active)
  PROVE  /\ CheckerType' /\ holder' \in Checkers \cup {Nobody}
         /\ SomebodyLeft' /\ OneCheck' /\ ConfirmsOpen'
<1>1. holder = c /\ holder' = Nobody /\ Goes(c, Idle)
  BY DEF GateIInv, OneCheck, Ends, Concludes, Resting
<1>2. Idle \in [at : Positions, left : Seq(DOMAIN Accounts), keyed : BOOLEAN] /\ Idle.at \in Resting
      /\ Idle.at # "confirmed"
  BY DEF Idle, Positions, Resting
<1>3. Nobody # c
  BY MarketGateAssumption
<1>4. QED
  BY <1>1, <1>2, <1>3, MoveKeeps

\* A caller that asks the next account, or ends after the last.
LEMMA NextKeeps ==
  ASSUME GateIInv, NEW c \in Checkers, checker[c].at \notin Resting, NextOf(c)
  PROVE  /\ CheckerType' /\ holder' \in Checkers \cup {Nobody}
         /\ SomebodyLeft' /\ OneCheck' /\ ConfirmsOpen'
<1>1. CASE Len(checker[c].left) = 1
  <2>1. Ends(c, FALSE)
    BY <1>1 DEF NextOf
  <2>2. QED
    BY <2>1, EndsKeeps
<1>2. CASE Len(checker[c].left) # 1
  <2> DEFINE to == [at |-> "asking", left |-> Tail(checker[c].left), keyed |-> FALSE]
  <2>1. Goes(c, to) /\ holder' = holder
    BY <1>2 DEF NextOf, TurnsTo
  <2>2. checker[c].left \in Seq(DOMAIN Accounts) /\ checker[c].left # <<>>
    BY DEF GateIInv, CheckerType, SomebodyLeft
  <2>3. Tail(checker[c].left) \in Seq(DOMAIN Accounts) /\ Tail(checker[c].left) # <<>>
    <3>1. Len(checker[c].left) \in Nat /\ Len(checker[c].left) # 0
      BY <2>2, EmptySeq
    <3>2. /\ Tail(checker[c].left) \in Seq(DOMAIN Accounts)
          /\ Len(Tail(checker[c].left)) = Len(checker[c].left) - 1
      BY <2>2, HeadTailProperties
    <3>3. Len(Tail(checker[c].left)) # 0
      BY <1>2, <3>1, <3>2
    <3>4. QED
      BY <3>2, <3>3, EmptySeq
  <2>4. to \in [at : Positions, left : Seq(DOMAIN Accounts), keyed : BOOLEAN] /\ to.left # <<>>
        /\ to.at = "asking" /\ to.at \notin Resting
    BY <2>3 DEF Positions, Resting
  <2>5. holder' = c /\ holder = c
    BY <2>1 DEF GateIInv, OneCheck, Resting
  <2> HIDE DEF to
  <2>6. QED
    BY <2>1, <2>4, <2>5, MoveKeeps
<1>3. QED
  BY <1>1, <1>2

\* Every step keeps an open exchange seen.
LEMMA SeenOpenStep ==
  ASSUME SeenOpen, [GateNext]_gateVars
  PROVE  SeenOpen'
<1>1. ASSUME UNCHANGED exchange, (wasOpen => wasOpen') \/ wasOpen' = exchange.open PROVE SeenOpen'
  BY <1>1 DEF SeenOpen
<1>2. ASSUME NEW new \in [open : BOOLEAN, hours : BOOLEAN, out : SUBSET DOMAIN Accounts], Exchange(new) PROVE SeenOpen'
  BY <1>2 DEF Exchange, SeenOpen
<1>3. ASSUME NEW c \in Checkers, Enter(c) \/ Kept(c) \/ Answered(c) \/ Failed(c) PROVE SeenOpen'
  <2>1. UNCHANGED exchange
    BY <1>3 DEF Enter, Kept, Answered, Failed
  <2>2. UNCHANGED wasOpen \/ wasOpen' = exchange.open
    BY <1>3, Zenon DEF Enter, Kept, Answered, Failed, NextOf, Ends, TurnsTo
  <2>3. QED
    BY <1>1, <2>1, <2>2
<1>4. CASE UNCHANGED <<exchange, wasOpen>>
  BY <1>1, <1>4
<1>5. CASE OpensOrCloses
  <2>1. [exchange EXCEPT !.open = ~@] \in [open : BOOLEAN, hours : BOOLEAN, out : SUBSET DOMAIN Accounts]
    BY DEF SeenOpen
  <2>2. QED
    BY <1>2, <1>5, <2>1 DEF OpensOrCloses
<1>6. CASE HoursEnd
  <2>1. [exchange EXCEPT !.hours = FALSE] \in [open : BOOLEAN, hours : BOOLEAN, out : SUBSET DOMAIN Accounts]
    BY DEF SeenOpen
  <2>2. QED
    BY <1>2, <1>6, <2>1 DEF HoursEnd
<1>7. CASE SessionsChange
  <2>1. PICK S \in SUBSET DOMAIN Accounts : Exchange([exchange EXCEPT !.out = S])
    BY <1>7 DEF SessionsChange
  <2>2. [exchange EXCEPT !.out = S] \in [open : BOOLEAN, hours : BOOLEAN, out : SUBSET DOMAIN Accounts]
    BY DEF SeenOpen
  <2>3. QED
    BY <1>2, <2>1, <2>2
<1>8. CASE HoursBegin
  <2>1. /\ exchange' \in [open : BOOLEAN, hours : BOOLEAN, out : SUBSET DOMAIN Accounts]
        /\ exchange'.open = exchange.open /\ UNCHANGED wasOpen
    BY <1>8 DEF HoursBegin, SeenOpen
  <2>2. QED
    BY <2>1 DEF SeenOpen
<1>9. QED
  BY <1>3, <1>4, <1>5, <1>6, <1>7, <1>8
  DEF GateNext, gateVars, CheckStep, Call, OutOfHours, Ask, Replies, Hangs, Timeout, DnaAges, StatusAges, OverrideAges,
      AnswerAges, Clock

\* Every step preserves the invariant, and only a confirmation turns the result active.
LEMMA GateInductiveStep ==
  GateIInv /\ [GateNext]_gateVars => GateIInv' /\ (~dna.active /\ dna'.active => wasOpen)
<1> SUFFICES ASSUME GateIInv, [GateNext]_gateVars
             PROVE  GateIInv' /\ (~dna.active /\ dna'.active => wasOpen)
  OBVIOUS
<1> DEFINE Moved == /\ CheckerType' /\ holder' \in Checkers \cup {Nobody}
                    /\ SomebodyLeft' /\ OneCheck' /\ ConfirmsOpen'
           Silent == DnaType' /\ (dna'.active => dna.active)
           Goal == GateIInv' /\ (~dna.active /\ dna'.active => wasOpen)
<1>s. SeenOpen'
  BY SeenOpenStep DEF GateIInv
<1>a. ASSUME Moved, SuccessNotKept', Silent PROVE Goal
  BY <1>a, <1>s DEF GateIInv
<1>b. ASSUME UNCHANGED sessions PROVE SuccessNotKept'
  BY <1>b DEF GateIInv, SuccessNotKept
<1>c. ASSUME UNCHANGED <<holder, checker>>, wasOpen => wasOpen' PROVE Moved
  BY <1>c DEF GateIInv, CheckerType, SomebodyLeft, OneCheck, ConfirmsOpen
<1>d. ASSUME UNCHANGED dna PROVE Silent
  BY <1>d DEF GateIInv, DnaType
<1>e. ASSUME NEW c \in Checkers, checker[c].at \notin Resting, NextOf(c) PROVE Silent
  <2>1. CASE Ends(c, FALSE)
    BY <2>1 DEF Ends, DnaType
  <2>2. CASE UNCHANGED dna
    BY <2>2, <1>d
  <2>3. QED
    BY <1>e, <2>1, <2>2 DEF NextOf
<1>f. /\ Idle \in [at : Positions, left : Seq(DOMAIN Accounts), keyed : BOOLEAN]
      /\ Idle.at = "idle" /\ Idle.at \in Resting
  BY DEF Idle, Positions, Resting
<1>1. ASSUME NEW c \in Checkers, Call(c) PROVE Goal
  <2> DEFINE to == IF dna.fresh THEN Idle ELSE [Idle EXCEPT !.at = "queued"]
  <2>1. Goes(c, to) /\ UNCHANGED <<holder, sessions, dna, wasOpen>> /\ checker[c].at = "idle"
    BY <1>1 DEF Call, Concludes, At
  <2>2. /\ to \in [at : Positions, left : Seq(DOMAIN Accounts), keyed : BOOLEAN]
        /\ to.at \in Resting /\ to.at # "confirmed"
    BY <1>f DEF Positions, Idle, Resting
  <2>3. holder' # c
    BY <2>1 DEF GateIInv, OneCheck
  <2> HIDE DEF to
  <2>4. Moved
    BY <2>1, <2>2, <2>3, MoveKeeps
  <2>5. QED
    BY <1>a, <1>b, <1>d, <2>1, <2>4
<1>2. ASSUME NEW c \in Checkers, OutOfHours(c) PROVE Goal
  BY <1>2, <1>a, <1>b, <1>c, <1>d DEF OutOfHours
<1>3. ASSUME NEW c \in Checkers, Enter(c) PROVE Goal
  <2> DEFINE to == IF dna.fresh THEN Idle ELSE [at |-> "asking", left |-> Asks(c), keyed |-> FALSE]
  <2>1. /\ Goes(c, to) /\ UNCHANGED <<sessions, dna>>
        /\ holder = Nobody /\ holder' = IF dna.fresh THEN Nobody ELSE c
    BY <1>3 DEF Enter, Concludes, TurnsTo
  <2>2. /\ to \in [at : Positions, left : Seq(DOMAIN Accounts), keyed : BOOLEAN]
        /\ to.at \notin Resting <=> ~dna.fresh
        /\ ~dna.fresh => to.left # <<>>
        /\ to.at # "confirmed"
    BY <1>f, AsksSomebody DEF Positions, Resting, Idle
  <2>3. Nobody # c
    BY MarketGateAssumption
  <2> HIDE DEF to
  <2>4. Moved
    BY <2>1, <2>2, <2>3, MoveKeeps
  <2>5. QED
    BY <1>a, <1>b, <1>d, <2>1, <2>4
<1>4. ASSUME NEW c \in Checkers, Kept(c) PROVE Goal
  <2>1. checker[c].at \notin Resting
    BY <1>4 DEF Kept, At, Resting
  <2>2. sessions[Broker(c)].said # "success"
    BY <2>1, BrokerKnown DEF GateIInv, SuccessNotKept
  <2>3. NotLive(sessions) /\ NextOf(c)
    BY <1>4, <2>2 DEF Kept
  <2>4. QED
    BY <1>a, <1>b, <1>e, <2>1, <2>3, NextKeeps DEF NotLive
<1>5. ASSUME NEW c \in Checkers, Ask(c) PROVE Goal
  <2> DEFINE to == [checker[c] EXCEPT !.at = "sent", !.keyed = CacheOn]
  <2>1. Goes(c, to) /\ UNCHANGED <<holder, sessions, dna, wasOpen>> /\ checker[c].at = "asking"
    BY <1>5 DEF Ask, At
  <2>2. checker[c] \in [at : Positions, left : Seq(DOMAIN Accounts), keyed : BOOLEAN]
    BY DEF GateIInv, CheckerType
  <2>3. CacheOn \in BOOLEAN
    BY DEF CacheOn
  <2>4. /\ to \in [at : Positions, left : Seq(DOMAIN Accounts), keyed : BOOLEAN]
        /\ to.at = "sent" /\ to.at \notin Resting /\ to.left = checker[c].left
    BY <2>2, <2>3 DEF Positions, Resting
  <2>5. holder' = c /\ to.left # <<>>
    BY <2>1, <2>4 DEF GateIInv, OneCheck, SomebodyLeft, Resting
  <2> HIDE DEF to
  <2>6. Moved
    BY <2>1, <2>4, <2>5, MoveKeeps
  <2>7. QED
    BY <1>a, <1>b, <1>d, <2>1, <2>6
<1>g. ASSUME NEW c \in Checkers, NEW at \in Positions \ Resting, checker[c].at \notin Resting,
             at = "confirmed" => wasOpen,
             Goes(c, [checker[c] EXCEPT !.at = at]), UNCHANGED <<holder, sessions, dna, wasOpen>>
      PROVE  Goal
  <2> DEFINE to == [checker[c] EXCEPT !.at = at]
  <2>1. checker[c] \in [at : Positions, left : Seq(DOMAIN Accounts), keyed : BOOLEAN]
    BY DEF GateIInv, CheckerType
  <2>2. /\ to \in [at : Positions, left : Seq(DOMAIN Accounts), keyed : BOOLEAN]
        /\ to.at = at /\ to.left = checker[c].left
    BY <2>1
  <2>3. holder' = c /\ to.left # <<>>
    BY <1>g, <2>2 DEF GateIInv, OneCheck, SomebodyLeft, Resting
  <2>4. Goes(c, to)
    BY <1>g
  <2> HIDE DEF to
  <2>5. Moved
    BY <1>g, <2>2, <2>3, <2>4, MoveKeeps
  <2>6. QED
    BY <1>a, <1>b, <1>d, <1>g, <2>5
<1>6. ASSUME NEW c \in Checkers, Replies(c) PROVE Goal
  <2> DEFINE at == IF exchange.open /\ Asked(c) \notin exchange.out THEN "confirmed" ELSE "denied"
  <2>1. /\ checker[c].at = "sent" /\ Goes(c, [checker[c] EXCEPT !.at = at])
        /\ UNCHANGED <<holder, sessions, dna, wasOpen>>
    BY <1>6 DEF Replies, At
  <2>2. at \in Positions \ Resting
    BY DEF Positions, Resting
  <2>3. at = "confirmed" => wasOpen
    <3>1. exchange.open => wasOpen
      BY DEF GateIInv, SeenOpen
    <3>2. QED
      BY <3>1
  <2> HIDE DEF at
  <2>4. QED
    BY <1>g, <2>1, <2>2, <2>3 DEF Resting
<1>7. ASSUME NEW c \in Checkers, Hangs(c) PROVE Goal
  BY <1>7, <1>g DEF Hangs, Waits, Positions, Resting
<1>h. ASSUME NEW c \in Checkers, Answered(c) PROVE Goal
  <2>1. checker[c].at \notin Resting
    BY <1>h DEF Answered, At, Resting
  <2>2. CASE At(c, "confirmed")
    <3> DEFINE stored == Storing(Broker(c), "success", checker[c].keyed)
    <3>1. Live(stored) /\ Ends(c, TRUE)
      BY <1>h, <2>2 DEF Answered, At
    <3>2. DOMAIN stored = Brokers
      BY DEF Storing, GateIInv, SuccessNotKept
    <3>3. SuccessNotKept'
      BY <3>1, <3>2 DEF Live, SuccessNotKept, NoAnswer
    <3>4. Moved
      BY <2>1, <3>1, EndsKeeps
    <3>5. wasOpen
      BY <2>2 DEF At, GateIInv, ConfirmsOpen
    <3>6. DnaType'
      BY <3>1 DEF Ends, DnaType
    <3>7. QED
      BY <1>s, <3>3, <3>4, <3>5, <3>6 DEF GateIInv
  <2>3. CASE At(c, "denied")
    <3>1. NotLive(Storing(Broker(c), "failed", checker[c].keyed)) /\ NextOf(c)
      BY <1>h, <2>3 DEF Answered, At
    <3>2. SuccessNotKept'
      BY <3>1, <2>1, BrokerKnown DEF NotLive, Storing, GateIInv, SuccessNotKept
    <3>3. QED
      BY <1>a, <1>e, <2>1, <3>1, <3>2, NextKeeps
  <2>4. QED
    BY <1>h, <2>2, <2>3 DEF Answered
<1>i. ASSUME NEW c \in Checkers, Failed(c) PROVE Goal
  <2>1. checker[c].at \notin Resting /\ NextOf(c) /\ UNCHANGED sessions
    BY <1>i DEF Failed, Waits, Resting
  <2>2. QED
    BY <1>a, <1>b, <1>e, <2>1, NextKeeps
<1>8. ASSUME NEW c \in Pages, Timeout(c) PROVE Goal
  <2>1. c \in Checkers /\ Nobody # c
    BY MarketGateAssumption DEF Checkers
  <2>2. /\ Goes(c, Idle) /\ holder' = (IF holder = c THEN Nobody ELSE holder)
        /\ UNCHANGED <<sessions, dna, wasOpen>>
    BY <1>8 DEF Timeout
  <2>3. Moved
    BY <1>f, <2>1, <2>2, MoveKeeps
  <2>4. QED
    BY <1>a, <1>b, <1>d, <2>2, <2>3
<1>9. ASSUME DnaAges \/ StatusAges \/ OverrideAges \/ OpensOrCloses \/ HoursEnd \/ SessionsChange \/ UNCHANGED gateVars
      PROVE  Goal
  <2>0. wasOpen => wasOpen'
    BY <1>9, Zenon DEF DnaAges, StatusAges, OverrideAges, OpensOrCloses, HoursEnd, SessionsChange, Exchange, Clock, gateVars
  <2>1. UNCHANGED <<holder, checker, sessions>>
    BY <1>9 DEF DnaAges, StatusAges, OverrideAges, OpensOrCloses, HoursEnd, SessionsChange, Exchange, Clock, gateVars
  <2>2. Silent
    <3>1. CASE DnaAges
      BY <3>1 DEF DnaAges, GateIInv, DnaType
    <3>2. CASE ~DnaAges
      BY <1>9, <3>2, <1>d DEF StatusAges, OverrideAges, OpensOrCloses, HoursEnd, SessionsChange, Exchange, Clock, gateVars
    <3>3. QED
      BY <3>1, <3>2
  <2>3. QED
    BY <1>a, <1>b, <1>c, <2>0, <2>1, <2>2
<1>10. ASSUME NEW b \in Brokers, AnswerAges(b) PROVE Goal
  <2>1. SuccessNotKept'
    BY <1>10 DEF AnswerAges, GateIInv, SuccessNotKept
  <2>2. UNCHANGED <<holder, checker, dna, wasOpen>>
    BY <1>10 DEF AnswerAges, Clock
  <2>3. QED
    BY <1>a, <1>c, <1>d, <2>1, <2>2
<1>11. ASSUME HoursBegin PROVE Goal
  <2>1. SuccessNotKept'
    BY <1>11 DEF HoursBegin, SuccessNotKept, NoAnswer
  <2>2. UNCHANGED <<holder, checker, wasOpen>> /\ Silent
    BY <1>11 DEF HoursBegin, GateIInv, DnaType
  <2>3. QED
    BY <1>a, <1>c, <2>1, <2>2
<1> HIDE DEF Goal
<1>12. Goal
  BY <1>1, <1>2, <1>3, <1>4, <1>5, <1>6, <1>7, <1>8, <1>9, <1>10, <1>11, <1>h, <1>i DEF GateNext, CheckStep
<1>13. QED
  BY <1>12 DEF Goal

\* However many accounts, brokers and pages there are, and wherever pages give up: whoever asks
\* for the exchange's session holds the lock, so that two are never asked at once.
THEOREM OneCheckEver == GateSpec => []OneCheck
<1>1. GateIInv => OneCheck
  BY DEF GateIInv
<1>2. GateIInv /\ [GateNext]_gateVars => GateIInv'
  BY GateInductiveStep
<1>3. QED
  BY <1>1, <1>2, GateInductiveInit, PTL DEF GateSpec

\* The cache of answers cannot make a closed exchange look open: a result turns active only in
\* a step in which the exchange is open.
THEOREM ConfirmedEver == GateSpec => ConfirmedOnly
<1>1. GateIInv /\ [GateNext]_gateVars => GateIInv'
  BY GateInductiveStep
<1>2. GateIInv /\ [GateNext]_gateVars => [~dna.active /\ dna'.active => wasOpen]_gateVars
  BY GateInductiveStep
<1>3. QED
  BY <1>1, <1>2, GateInductiveInit, PTL DEF GateSpec, ConfirmedOnly
=============================================================================
