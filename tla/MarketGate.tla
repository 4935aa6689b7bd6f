----------------------------- MODULE MarketGate -----------------------------
(***************************************************************************)
(* Whether the exchange is live (utils/market_gate.py,                     *)
(* utils/market_live_state.py, /market-status/ of main.py and the cache of *)
(* GET answers of utils/tms.py).  One result of the exchange's DNA session *)
(* is shared by every caller for three seconds; while the exchange is held *)
(* to be closed the answers of GET requests, the session's among them, are *)
(* kept for an hour, under a key without the account.                      *)
(***************************************************************************)
EXTENDS Naturals, FiniteSets, Sequences

CONSTANTS
  Accounts,   \* the logged-in accounts, in the order in which the monitor asks them
  BrokerOf,   \* the broker of each: accounts of one broker share the key of the session
  Monitor,    \* the monitor, which takes the gate once per scan
  Pages,      \* calls of /market-status/
  AccountOf,  \* the account each page asks with
  Nobody,
  MaxErrors   \* bound: checks and answers that fail

Brokers == {BrokerOf[i] : i \in DOMAIN Accounts}
Checkers == Pages \cup {Monitor}

ASSUME MarketGateAssumption ==
  /\ Len(Accounts) \in Nat \ {0} /\ DOMAIN Accounts = 1..Len(Accounts)
  /\ DOMAIN BrokerOf = DOMAIN Accounts
  /\ AccountOf \in [Pages -> DOMAIN Accounts]
  /\ Monitor \notin Pages /\ Nobody \notin Checkers
  /\ MaxErrors \in Nat

VARIABLES
  exchange,  \* open: continuous trading; hours: it is the time of day to ask; out: the
             \* accounts whose session the broker reports as logged out
  dna,       \* _dna_state: what was found, and whether less than three seconds ago
  holder,    \* who holds _dna_lock
  checker,   \* where each caller of get_shared_dna_session is
  override,  \* _market_live_override: "live", "closed", or "none" (not set, or 90 s old)
  sessions,  \* _non_live_request_cache: the session's answer of each broker
  phase,     \* scheduled_phase, as the gate left it
  status,    \* market_status_cache: the phase shown, and whether it is still shown
  wasOpen,   \* the exchange has been open since the account that is being asked was turned
             \* to (for properties only)
  errors
gateVars == <<exchange, dna, holder, checker, override, sessions, phase, status, wasOpen, errors>>

NoAnswer == [said |-> "none", old |-> FALSE]
Idle == [at |-> "idle", left |-> <<>>, keyed |-> FALSE]

GateInit ==
  /\ exchange = [open |-> FALSE, hours |-> FALSE, out |-> {}]
  /\ dna = [active |-> FALSE, fresh |-> FALSE] /\ holder = Nobody
  /\ checker = [c \in Checkers |-> Idle]
  /\ override = "none" /\ sessions = [b \in Brokers |-> NoAnswer]
  /\ phase = "armed" /\ status = [shown |-> "closed", fresh |-> FALSE]
  /\ wasOpen = FALSE /\ errors = 0

-----------------------------------------------------------------------------
(* The cache of GET answers.  (Operators named Mutant... are faulty        *)
(* variants of the definition that follows them.)                          *)

\* is_non_live_tms_cache_enabled
CacheOn == ~exchange.hours \/ override = "closed"
MutantUsable(b) == sessions[b].said # "none"
Usable(b) == sessions[b].said # "none" /\ ~sessions[b].old

\* set_market_live_override, after an answer was kept: a live exchange empties the cache.
Storing(b, said, keyed) ==
  IF keyed THEN [sessions EXCEPT ![b] = [said |-> said, old |-> FALSE]] ELSE sessions
MutantLive(stored) ==
  /\ override' = "live" /\ sessions' = stored
Live(stored) ==
  /\ override' = "live"
  /\ sessions' = [b \in DOMAIN stored |-> NoAnswer]
NotLive(stored) ==
  /\ override' = "closed" /\ sessions' = stored

-----------------------------------------------------------------------------
(* get_shared_dna_session.                                                 *)

Asks(c) == IF c = Monitor THEN [i \in DOMAIN Accounts |-> i] ELSE <<AccountOf[c]>>
At(c, at) == checker[c].at = at
Goes(c, to) == checker' = [checker EXCEPT ![c] = to]

\* The payload of /market-status/, kept for its time to live: open or closed as the session
\* says, closed outside the hours, checking if nobody answered.
Shows(shown) == status' = [shown |-> shown, fresh |-> TRUE]

\* What a caller makes of the result: the gate's phase, or the page's answer.
Concludes(c, active) ==
  /\ Goes(c, Idle)
  /\ phase' = IF c # Monitor THEN phase ELSE IF active THEN "active" ELSE "waiting_exchange"
  /\ IF c = Monitor THEN UNCHANGED status ELSE Shows(IF active THEN "open" ELSE "closed")

Call(c) ==
  /\ At(c, "idle") /\ exchange.hours
  /\ c \in Pages => ~status.fresh
  /\ IF dna.fresh THEN Concludes(c, dna.active)
     ELSE Goes(c, [Idle EXCEPT !.at = "queued"]) /\ UNCHANGED <<phase, status>>
  /\ UNCHANGED <<exchange, dna, holder, override, sessions, wasOpen, errors>>

\* Outside the hours nobody is asked.
OutOfHours(c) ==
  /\ At(c, "idle") /\ ~exchange.hours
  /\ IF c = Monitor THEN phase' = "waiting_hours" /\ UNCHANGED status
     ELSE ~status.fresh /\ Shows("closed") /\ UNCHANGED phase
  /\ UNCHANGED <<exchange, dna, holder, checker, override, sessions, wasOpen, errors>>

\* An account is turned to.
TurnsTo(c, left) ==
  /\ Goes(c, [at |-> "asking", left |-> left, keyed |-> FALSE]) /\ wasOpen' = exchange.open
  /\ UNCHANGED <<phase, status>>

Enter(c) ==
  /\ At(c, "queued") /\ holder = Nobody
  /\ IF dna.fresh THEN Concludes(c, dna.active) /\ UNCHANGED <<holder, wasOpen>>
     ELSE holder' = c /\ TurnsTo(c, Asks(c))
  /\ UNCHANGED <<exchange, dna, override, sessions, errors>>

\* The accounts are asked in turn until one confirms; then, or after the last, the result is
\* stored and the lock released.
Ends(c, active) ==
  /\ dna' = [active |-> active, fresh |-> TRUE] /\ holder' = Nobody
  /\ Concludes(c, active) /\ UNCHANGED wasOpen
NextOf(c) ==
  IF Len(checker[c].left) = 1 THEN Ends(c, FALSE)
  ELSE TurnsTo(c, Tail(checker[c].left)) /\ UNCHANGED <<dna, holder>>

Asked(c) == Head(checker[c].left)
Broker(c) == BrokerOf[Asked(c)]

\* The session's request is a GET like any other: a kept answer is the answer.
Kept(c) ==
  /\ At(c, "asking") /\ CacheOn /\ Usable(Broker(c))
  /\ IF sessions[Broker(c)].said = "success" THEN Live(sessions) /\ Ends(c, TRUE) ELSE NotLive(sessions) /\ NextOf(c)
  /\ UNCHANGED <<exchange, errors>>
Ask(c) ==
  /\ At(c, "asking") /\ ~(CacheOn /\ Usable(Broker(c)))
  /\ Goes(c, [checker[c] EXCEPT !.at = "sent", !.keyed = CacheOn])
  /\ UNCHANGED <<exchange, dna, holder, override, sessions, phase, status, wasOpen, errors>>

\* The broker answers for the exchange as it is then; by the time the answer is processed the
\* exchange may have opened or closed.
Replies(c) ==
  /\ At(c, "sent")
  /\ Goes(c, [checker[c] EXCEPT !.at = IF exchange.open /\ Asked(c) \notin exchange.out THEN "confirmed" ELSE "denied"])
  /\ UNCHANGED <<exchange, dna, holder, override, sessions, phase, status, wasOpen, errors>>
Answered(c) ==
  /\ \/ /\ At(c, "confirmed")
        /\ Live(Storing(Broker(c), "success", checker[c].keyed)) /\ Ends(c, TRUE)
     \/ /\ At(c, "denied")
        /\ NotLive(Storing(Broker(c), "failed", checker[c].keyed)) /\ NextOf(c)
  /\ UNCHANGED <<exchange, errors>>

Waits(c) == checker[c].at \in {"sent", "confirmed", "denied"}
Failed(c) ==
  /\ Waits(c) /\ errors < MaxErrors /\ errors' = errors + 1
  /\ NextOf(c)
  /\ UNCHANGED <<exchange, override, sessions>>
\* A 401 whose refresh succeeds never ends (TmsSession), and keeps the lock.
Hangs(c) ==
  /\ Waits(c) /\ errors < MaxErrors /\ errors' = errors + 1
  /\ Goes(c, [checker[c] EXCEPT !.at = "hung"])
  /\ UNCHANGED <<exchange, dna, holder, override, sessions, phase, status, wasOpen>>

MutantTimeout(c) ==
  /\ ~At(c, "idle") /\ errors < MaxErrors /\ errors' = errors + 1
  /\ Goes(c, Idle) /\ Shows("checking")
  /\ UNCHANGED <<exchange, dna, holder, override, sessions, phase, wasOpen>>
\* A page gives up after eight seconds, wherever it is.
Timeout(c) ==
  /\ \/ ~At(c, "idle") /\ errors < MaxErrors /\ errors' = errors + 1
     \/ At(c, "hung") /\ UNCHANGED errors
  /\ Goes(c, Idle) /\ Shows("checking")
  /\ holder' = IF holder = c THEN Nobody ELSE holder
  /\ UNCHANGED <<exchange, dna, override, sessions, phase, wasOpen>>

-----------------------------------------------------------------------------
(* Time, and the exchange.                                                 *)

Clock == <<exchange, holder, checker, phase, wasOpen, errors>>
DnaAges ==
  /\ dna.fresh /\ dna' = [dna EXCEPT !.fresh = FALSE]
  /\ UNCHANGED <<Clock, override, sessions, status>>
StatusAges ==
  /\ status.fresh /\ status' = [status EXCEPT !.fresh = FALSE]
  /\ UNCHANGED <<Clock, dna, override, sessions>>
OverrideAges ==
  /\ override # "none" /\ override' = "none"
  /\ UNCHANGED <<Clock, dna, sessions, status>>
AnswerAges(b) ==
  /\ Usable(b) /\ sessions' = [sessions EXCEPT ![b].old = TRUE]
  /\ UNCHANGED <<Clock, dna, override, status>>

Exchange(new) ==
  /\ new # exchange /\ exchange' = new /\ wasOpen' = (wasOpen \/ new.open)
  /\ UNCHANGED <<dna, holder, checker, override, sessions, phase, status, errors>>
OpensOrCloses == Exchange([exchange EXCEPT !.open = ~@])
HoursEnd == exchange.hours /\ Exchange([exchange EXCEPT !.hours = FALSE])
\* The hours begin long after they ended: what was sent is over or hangs, and all that was found
\* or kept is old.
HoursBegin ==
  /\ ~exchange.hours /\ exchange' = [exchange EXCEPT !.hours = TRUE]
  /\ \A c \in Checkers : At(c, "idle") \/ At(c, "hung")
  /\ dna' = [dna EXCEPT !.fresh = FALSE] /\ override' = "none"
  /\ sessions' = [b \in Brokers |-> NoAnswer] /\ status' = [status EXCEPT !.fresh = FALSE]
  /\ UNCHANGED <<holder, checker, phase, wasOpen, errors>>
SessionsChange == \E S \in SUBSET DOMAIN Accounts : Exchange([exchange EXCEPT !.out = S])

CheckStep(c) == Enter(c) \/ Kept(c) \/ Ask(c) \/ Replies(c) \/ Answered(c)
GateNext ==
  \/ \E c \in Checkers : Call(c) \/ OutOfHours(c) \/ CheckStep(c) \/ Failed(c) \/ Hangs(c)
  \/ \E c \in Pages : Timeout(c)
  \/ DnaAges \/ StatusAges \/ OverrideAges
  \/ \E b \in Brokers : AnswerAges(b)
  \/ OpensOrCloses \/ HoursEnd \/ HoursBegin \/ SessionsChange

GateSpec == GateInit /\ [][GateNext]_gateVars

\* The monitor scans again and again, requests are answered, fail or hang, a page's wait ends
\* (wait_for), results and kept answers get old, and asyncio's lock is granted in the order in
\* which it was asked for; no page has to be opened, and no market has to open.
GateFairness ==
  /\ WF_gateVars(Call(Monitor))
  /\ \A c \in Checkers : WF_gateVars(CheckStep(c)) /\ SF_gateVars(Enter(c))
  /\ \A c \in Pages : WF_gateVars(At(c, "hung") /\ Timeout(c))
  /\ WF_gateVars(DnaAges) /\ \A b \in Brokers : WF_gateVars(AnswerAges(b))

-----------------------------------------------------------------------------
(* Properties.                                                             *)

\* What is found live was live while it was asked for: the result turns active only by an
\* account whose request saw the exchange open at some time since the account was turned to,
\* never by an answer kept from an earlier session.
ConfirmedOnly == [][~dna.active /\ dna'.active => wasOpen]_gateVars

\* One check at a time: who asks holds the lock, and it is not lost with a page that gave up.
OneCheck == \A c \in Checkers : checker[c].at \notin {"idle", "queued"} <=> holder = c

\* When the exchange opens and every session is good the monitor scans for good, unless its
\* request hangs, although kept answers, answers under way and other callers' results say that
\* it is closed for a while.
GateOpens ==
  <>[](exchange.open /\ exchange.hours /\ exchange.out = {}) => <>[](phase = "active" \/ At(Monitor, "hung"))
=============================================================================
