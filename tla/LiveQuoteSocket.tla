--------------------------- MODULE LiveQuoteSocket ---------------------------
(***************************************************************************)
(* The shared quote sockets (utils/live_quote_socket.py) and the monitor's *)
(* way of taking a price from them (fetch_order_snapshot of                *)
(* utils/monitor_order.py).                                                *)
(*                                                                         *)
(* The manager keeps one record per symbol, with a task that runs the      *)
(* upstream socket.  Nothing awaits while its lock is held, so what the    *)
(* lock protects is one step here; what follows it, waiting for a          *)
(* cancelled task, is not.  Whatever else uses the manager (quote page,    *)
(* quote endpoint, stock grabber, shutdown) may make its calls in any      *)
(* order.  Time is what tells a quote's age apart: at most 8 seconds       *)
(* ("fresh"), less than 20 ("aged"), more ("old"), or none received.       *)
(***************************************************************************)
EXTENDS Naturals, FiniteSets

CONSTANTS
  Symbols,
  Fetchers,     \* price fetches of the monitor, all of one client
  SymbolOf,     \* the symbol each of them wants
  Requesters,   \* other coroutines that use the manager
  Streams,      \* identities of stream records, recycled (bounds what runs at once)
  MaxAttempts,  \* MONITOR_SOCKET_RETRY_ATTEMPTS
  Threshold,    \* MONITOR_SOCKET_FAILURE_THRESHOLD
  NoStream

Callers == Fetchers \cup Requesters

ASSUME ConstantsAssumption ==
  /\ SymbolOf \in [Fetchers -> Symbols]
  /\ Fetchers \cap Requesters = {}
  /\ NoStream \notin Streams
  /\ MaxAttempts \in Nat \ {0} /\ Threshold \in Nat \ {0}

VARIABLES
  market,   \* _market_is_open_now()
  current,  \* _streams: the record of each symbol
  stream,   \* the records with their tasks
  caller,   \* where each coroutine is
  price,    \* what the last fetch of each fetcher returned
  misses,   \* _monitor_socket_failure_state: failures ...
  cooling   \* ... and whether fallback_until lies ahead

managerVars == <<current, stream>>
fetchVars == <<price, misses, cooling>>
vars == <<market, managerVars, caller, fetchVars>>

Dead == {"failed", "closed", "auth_failed"}
Alive == {"created", "connecting", "subscribing", "receiving", "leaving", "breaking"}
StreamState ==
  [task: Alive \cup {"cancelling", "done"}, allow: BOOLEAN, auth: BOOLEAN,
   status: Dead \cup {"connecting", "connected", "live"},
   quote: {"none", "carried", "own"}, age: {"none", "fresh", "aged", "old"}]
CallerState ==
  [at: {"idle", "calling", "waiting", "resting", "dropping", "polling", "hung"},
   awaits: SUBSET Streams, tries: 0..(MaxAttempts - 1)]
Price == [source: {"none", "socket", "http"}, quote: {"none", "carried", "own", "polled"}]

-----------------------------------------------------------------------------
\* (Operators named Mutant... are faulty variants of the definition that follows them:
\* the properties at the end of the module tell the two apart.)
\* A record that nobody can reach any more keeps only its task.
Blank == [task |-> "done", allow |-> FALSE, auth |-> FALSE, status |-> "closed",
          quote |-> "none", age |-> "none"]

Init ==
  /\ market \in BOOLEAN
  /\ current = [y \in Symbols |-> NoStream]
  /\ stream = [s \in Streams |-> Blank]
  /\ caller = [c \in Callers |-> [at |-> "idle", awaits |-> {}, tries |-> 0]]
  /\ price = [f \in Fetchers |-> [source |-> "none", quote |-> "none"]]
  /\ misses = [y \in Symbols |-> 0]
  /\ cooling = [y \in Symbols |-> FALSE]

Popped(y) == {current[y]} \ {NoStream}

At(c, place) == caller[c].at = place
Y(f) == SymbolOf[f]
Snapshot(f) ==                                \* get_snapshot
  IF Popped(Y(f)) = {} THEN [Blank EXCEPT !.status = "idle"] ELSE stream[current[Y(f)]]

\* is_live_socket_snapshot
Live(r) == r.quote # "none" /\ r.status \in {"connected", "live"} /\ r.age = "fresh"

Stale(r) == ~Live(r) /\ ~r.auth /\ r.age \in {"none", "old"}
Restarts(r, force) == force \/ Stale(r) \/ (r.task = "done" /\ ~r.auth)
Keeps(y, force) == Popped(y) # {} /\ ~Restarts(stream[current[y]], force)

\* The caller awaits the tasks it cancelled, and goes on when they are done.
Go(c, S, during, after) ==
  caller' = [caller EXCEPT ![c] =
    IF \A s \in S : stream[s].task = "done"
      THEN [@ EXCEPT !.at = after]
      ELSE [@ EXCEPT !.at = during, !.awaits = S]]

Cancelled(s) == [Blank EXCEPT !.task = IF stream[s].task = "done" THEN "done" ELSE "cancelling"]

CloseSymbols(c, closing, during, after) ==
  LET S == UNION {Popped(y) : y \in closing} IN
  /\ current' = [y \in Symbols |-> IF y \in closing THEN NoStream ELSE current[y]]
  /\ stream' = [s \in Streams |-> IF s \in S THEN Cancelled(s) ELSE stream[s]]
  /\ Go(c, S, during, after)

Free(s) ==
  /\ stream[s].task = "done"
  /\ \A y \in Symbols : current[y] # s
  /\ \A c \in Callers : s \notin caller[c].awaits

MutantNewRecord(y, allow) ==
  [Blank EXCEPT !.task = "created", !.allow = allow, !.status = "connecting",
     !.quote = IF Popped(y) = {} \/ stream[current[y]].quote = "none" THEN "none" ELSE "carried",
     !.age = IF Popped(y) = {} THEN "none" ELSE stream[current[y]].age]
\* A new record carries the quote of the one it replaces, not its age.
NewRecord(y, allow) ==
  [Blank EXCEPT !.task = "created", !.allow = allow, !.status = "connecting",
     !.quote = IF Popped(y) = {} \/ stream[current[y]].quote = "none" THEN "none" ELSE "carried"]

MutantStartStream(c, y, allow, during, after) ==
  \E n \in {s \in Streams : Free(s)} :
    /\ current' = [current EXCEPT ![y] = n]
    /\ stream' = [stream EXCEPT ![n] = NewRecord(y, allow)]
    /\ Go(c, {}, during, after)
StartStream(c, y, allow, during, after) ==
  \E n \in {s \in Streams : Free(s)} :
    /\ current' = [current EXCEPT ![y] = n]
    /\ stream' = [s \in Streams |->
         IF s = n THEN NewRecord(y, allow) ELSE IF s \in Popped(y) THEN Cancelled(s) ELSE stream[s]]
    /\ Go(c, Popped(y), during, after)

\* ensure_stream; at a closed market it is close_symbol.
EnsureStream(c, y, force, allow, during, after) ==
  CASE ~market /\ ~allow -> CloseSymbols(c, {y}, during, after)
    [] (market \/ allow) /\ Keeps(y, force) -> Go(c, {}, during, after) /\ UNCHANGED managerVars
    [] OTHER -> StartStream(c, y, allow, during, after)

-----------------------------------------------------------------------------
(* The task of a stream: _run_stream.                                      *)

Task(s, from) == stream[s].task = from
Becomes(s, record) ==
  /\ stream' = [stream EXCEPT ![s] = record]
  /\ UNCHANGED <<market, current, caller, fetchVars>>
Open(s) == market \/ stream[s].allow
R(s) == stream[s]

Begin(s) ==
  /\ Task(s, "created")
  /\ Becomes(s, IF Open(s) THEN [R(s) EXCEPT !.task = "connecting"]
                           ELSE [R(s) EXCEPT !.task = "done", !.status = "closed"])

Connect(s) ==
  /\ Task(s, "connecting")
  /\ Becomes(s, [R(s) EXCEPT !.task = "subscribing", !.status = "connected"])

Subscribe(s) ==
  /\ Task(s, "subscribing")
  /\ Becomes(s, IF Open(s) THEN [R(s) EXCEPT !.task = "receiving", !.status = "live"]
                           ELSE [R(s) EXCEPT !.task = "leaving", !.status = "closed"])

\* A quote arrives; the head of the loop then looks at the market.
Receive(s) ==
  /\ Task(s, "receiving")
  /\ LET r == [R(s) EXCEPT !.quote = "own", !.age = "fresh", !.status = "live"] IN
     Becomes(s, IF Open(s) THEN r ELSE [r EXCEPT !.task = "leaving", !.status = "closed"])

\* Nothing for ten seconds, and the market has closed.
MarketCloses(s) ==
  /\ Task(s, "receiving") /\ ~Open(s)
  /\ Becomes(s, [R(s) EXCEPT !.task = "leaving", !.status = "closed"])

Break(s) ==
  /\ stream[s].task \in {"connecting", "subscribing", "receiving"}
  /\ Becomes(s, [R(s) EXCEPT !.task = "breaking"])

\* The socket is closed; the exception is an authentication error or another one.
Broken(s) ==
  /\ Task(s, "breaking")
  /\ \E a \in BOOLEAN :
       Becomes(s, [R(s) EXCEPT !.task = "done", !.auth = a,
         !.status = IF ~market THEN "closed" ELSE IF a THEN "auth_failed" ELSE "failed"])

Closed(s) ==
  /\ Task(s, "leaving")
  /\ Becomes(s, [R(s) EXCEPT !.task = "done"])

Stopped(s) ==
  /\ Task(s, "cancelling")
  /\ Becomes(s, Blank)

\* Time passes without a quote; who waits for a quote and sees one takes it at once.
Ages(y) ==
  /\ Popped(y) # {}
  /\ \A f \in Fetchers : At(f, "waiting") /\ Y(f) = y => Snapshot(f).quote # "own"
  /\ LET s == current[y] IN
     /\ R(s).age \in {"fresh", "aged"}
     /\ Becomes(s, [R(s) EXCEPT !.age = IF @ = "fresh" THEN "aged" ELSE "old"])

-----------------------------------------------------------------------------
(* The monitor's fetch of a price.                                         *)

Goes(c, place) == caller' = [caller EXCEPT ![c].at = place, ![c].awaits = {}]
Ends(f, p) ==
  /\ caller' = [caller EXCEPT ![f] = [at |-> "idle", awaits |-> {}, tries |-> 0]]
  /\ price' = [price EXCEPT ![f] = p]

\* The id of the security is known (asking for it is a request like the poll).
Fetch(f) ==
  /\ At(f, "idle")
  /\ IF cooling[Y(f)] THEN Goes(f, "polling") /\ UNCHANGED managerVars
                      ELSE EnsureStream(f, Y(f), FALSE, FALSE, "calling", "waiting")
  /\ UNCHANGED <<market, fetchVars>>

Returned(c) == \A s \in caller[c].awaits : stream[s].task = "done"
EnsureReturns(f) ==
  /\ At(f, "calling") /\ Returned(f)
  /\ Goes(f, "waiting")
  /\ UNCHANGED <<market, managerVars, fetchVars>>

\* wait_for_next_distinct_quote, or after it get_snapshot, has a quote: it is the price,
\* whatever the state of the stream, and the socket counts as working.
TakeQuote(f) ==
  /\ At(f, "waiting")
  /\ Snapshot(f).quote # "none"
  /\ Ends(f, [source |-> IF Live(Snapshot(f)) THEN "socket" ELSE "http",
              quote |-> Snapshot(f).quote])
  /\ misses' = [misses EXCEPT ![Y(f)] = 0] /\ cooling' = [cooling EXCEPT ![Y(f)] = FALSE]
  /\ UNCHANGED <<market, managerVars>>

NoQuote(f) == At(f, "waiting") /\ Snapshot(f).quote = "none"
Terminal(f) == Snapshot(f).auth \/ Snapshot(f).status \in Dead

\* _record_monitor_socket_failure: a failure below the threshold also ends a cool-down.
Miss(y, failures) ==
  /\ misses' = [misses EXCEPT ![y] = IF failures >= Threshold THEN 0 ELSE failures]
  /\ cooling' = [cooling EXCEPT ![y] = failures >= Threshold]

\* close_symbol had nothing to wait for.
Dropped(f) == stream[current[Y(f)]].task = "done"

DropStream(f) ==
  /\ NoQuote(f) /\ Terminal(f)
  /\ CloseSymbols(f, {Y(f)}, "dropping", "polling")
  /\ IF Dropped(f) THEN Miss(Y(f), Threshold) ELSE UNCHANGED <<misses, cooling>>
  /\ UNCHANGED <<market, price>>

DropReturns(f) ==
  /\ At(f, "dropping") /\ Returned(f)
  /\ Goes(f, "polling")
  /\ Miss(Y(f), Threshold)
  /\ UNCHANGED <<market, managerVars, price>>

WaitAgain(f) ==
  /\ NoQuote(f) /\ ~Terminal(f) /\ caller[f].tries < MaxAttempts - 1
  /\ Goes(f, "resting")
  /\ UNCHANGED <<market, managerVars, fetchVars>>

MutantRested(f) ==
  /\ At(f, "resting")
  /\ Goes(f, "waiting")
  /\ UNCHANGED <<market, managerVars, fetchVars>>
Rested(f) ==
  /\ At(f, "resting")
  /\ caller' = [caller EXCEPT ![f].at = "waiting", ![f].tries = @ + 1]
  /\ UNCHANGED <<market, managerVars, fetchVars>>

FallBack(f) ==
  /\ NoQuote(f) /\ ~Terminal(f) /\ caller[f].tries = MaxAttempts - 1
  /\ Goes(f, "polling")
  /\ Miss(Y(f), misses[Y(f)] + 1)
  /\ UNCHANGED <<market, managerVars, price>>

Poll(f) ==
  /\ At(f, "polling")
  /\ \E q \in {"polled", "none"} : Ends(f, [source |-> "http", quote |-> q])
  /\ UNCHANGED <<market, managerVars, misses, cooling>>

\* The poll gets a 401: it refreshes the token under the session's lock, and the request
\* that validates the new session waits for that lock (OnlySelfWaitBlocks of TmsSession).
PollHangs(f) ==
  /\ At(f, "polling")
  /\ Goes(f, "hung")
  /\ UNCHANGED <<market, managerVars, fetchVars>>

\* The monitor is stopped.  An await for a cancelled stream swallows the cancellation.
CancelFetch(f) ==
  /\ caller[f].at \in {"waiting", "resting", "polling", "hung"}
  /\ Ends(f, [source |-> "none", quote |-> "none"])
  /\ UNCHANGED <<market, managerVars, misses, cooling>>

CooldownEnds(y) ==
  /\ cooling[y]
  /\ cooling' = [cooling EXCEPT ![y] = FALSE]
  /\ UNCHANGED <<market, managerVars, caller, price, misses>>

-----------------------------------------------------------------------------
(* The other users of the manager.                                         *)

Request(c, y, force, allow) ==
  /\ At(c, "idle")
  /\ EnsureStream(c, y, force, allow, "calling", "idle")
  /\ UNCHANGED <<market, fetchVars>>

CloseBy(c, y) ==
  /\ At(c, "idle") /\ Popped(y) # {}
  /\ CloseSymbols(c, {y}, "calling", "idle")
  /\ UNCHANGED <<market, fetchVars>>

CloseAll(c) ==
  /\ At(c, "idle")
  /\ CloseSymbols(c, Symbols, "calling", "idle")
  /\ UNCHANGED <<market, fetchVars>>

RequestReturns(c) ==
  /\ At(c, "calling") /\ Returned(c)
  /\ Goes(c, "idle")
  /\ UNCHANGED <<market, managerVars, fetchVars>>

MarketOpensOrCloses ==
  /\ market' = ~market
  /\ UNCHANGED <<managerVars, caller, fetchVars>>

Proceeds(s) ==
  \/ Begin(s) \/ Connect(s) \/ Subscribe(s) \/ MarketCloses(s)
  \/ Broken(s) \/ Closed(s) \/ Stopped(s)
StreamStep(s) == Proceeds(s) \/ Receive(s) \/ Break(s)
FetchStep(f) ==
  \/ EnsureReturns(f) \/ TakeQuote(f) \/ DropStream(f) \/ DropReturns(f)
  \/ WaitAgain(f) \/ Rested(f) \/ FallBack(f) \/ Poll(f) \/ PollHangs(f)

Next ==
  \/ \E s \in Streams : StreamStep(s)
  \/ \E y \in Symbols : Ages(y) \/ CooldownEnds(y)
  \/ \E f \in Fetchers : Fetch(f) \/ FetchStep(f) \/ CancelFetch(f)
  \/ \E c \in Requesters :
       \/ \E y \in Symbols, force, allow \in BOOLEAN : Request(c, y, force, allow)
       \/ \E y \in Symbols : CloseBy(c, y)
       \/ CloseAll(c) \/ RequestReturns(c)
  \/ MarketOpensOrCloses

Spec == Init /\ [][Next]_vars

\* Connecting, receiving and closing all have timeouts, and the event loop resumes what
\* has ended; no message has to come and nobody has to ask for a price or for a stream.
Fairness ==
  /\ \A s \in Streams : WF_vars(Proceeds(s))
  /\ \A f \in Fetchers : WF_vars(FetchStep(f))
  /\ \A c \in Requesters : WF_vars(RequestReturns(c))
FairSpec == Spec /\ Fairness

-----------------------------------------------------------------------------
(* Properties *)

\* Types of the variables.
TypeOK ==
  /\ market \in BOOLEAN
  /\ current \in [Symbols -> Streams \cup {NoStream}]
  /\ stream \in [Streams -> StreamState]
  /\ caller \in [Callers -> CallerState]
  /\ price \in [Fetchers -> Price]
  /\ misses \in [Symbols -> Nat] /\ cooling \in [Symbols -> BOOLEAN]

\* No socket outlives its record: a task that has not been cancelled is that of the record
\* of exactly one symbol (its first step finds its own record under that symbol), and a
\* task that was cancelled is under no symbol and awaited by whoever cancelled it, however
\* requests, restarts, closings and cancellations interleave.
NoOrphan ==
  \A s \in Streams :
    /\ stream[s].task \in Alive => \E y \in Symbols : current[y] = s
    /\ \A y, z \in Symbols : current[y] = s /\ current[z] = s => y = z
    /\ stream[s].task = "cancelling" =>
         /\ \A y \in Symbols : current[y] # s
         /\ \E c \in Callers : s \in caller[c].awaits

\* A price the monitor reports as coming from the socket was received by the stream that
\* is connected now, never carried over from one that was replaced.
SocketPricesAreOwn == \A f \in Fetchers : price[f].source = "socket" => price[f].quote = "own"

\* The sockets delay no fetch for ever: it ends with a quote or with the answer to a poll,
\* although others restart and close the stream it waits for, unless that poll hangs.
FetchEnds == \A f \in Fetchers : caller[f].at # "idle" ~> caller[f].at \in {"idle", "hung"}

\* "failed - using stock quote polling" (orderStrategyDetails.ts:102, and its test): the
\* price of an order whose socket has failed for good is polled; it is not the one which
\* that socket received long ago.
FailedSocketPolls ==
  [][\A f \in Fetchers :
       At(f, "waiting") /\ caller'[f].at = "idle" /\ price'[f].quote \in {"own", "carried"}
         => ~(Snapshot(f).status \in {"failed", "auth_failed"} /\ Snapshot(f).age = "old")]_vars

-----------------------------------------------------------------------------
(* The inductive invariant behind NoOrphan and SocketPricesAreOwn.         *)

\* Only a caller in a call awaits streams; a fetch rests only before another attempt.
CallersOK ==
  \A c \in Callers :
    /\ caller[c].awaits # {} => caller[c].at \in {"calling", "dropping"}
    /\ caller[c].at = "resting" => caller[c].tries < MaxAttempts - 1

\* A record that has received something holds what it received.
AgesOK == \A s \in Streams : stream[s].age # "none" => stream[s].quote = "own"

IInv == TypeOK /\ NoOrphan /\ CallersOK /\ AgesOK /\ SocketPricesAreOwn
=============================================================================
